---- MODULE Spec2Model ----
(***************************************************************************)
(* A model of juv's inline-metadata codec, reproducibility stamper, editor *)
(* merge engine and script/notebook converter.                             *)
(*                                                                         *)
(* A text is a sequence of symbols.  A symbol is a one-character string    *)
(* ("#", " ", "/", newline, carriage return) or a word: a run of           *)
(* characters within one line, with no whitespace at either end, that no   *)
(* operation of the code ever splits ("script", "a", "[tool.uv]", ...).    *)
(***************************************************************************)
EXTENDS Integers, Sequences, FiniteSets, TLC

VARIABLES
    toml,       \* codec: the TOML text handed to the encoder, or NoToml
    segs,       \* codec: the segments the parsed text was assembled from
    text,       \* codec: the text handed to parse_inline_script_metadata
    parsed,     \* codec: what parse_inline_script_metadata returned or raised
    cpc,        \* codec: position ("toml", "text", "done")
    prev_cells, \* edit: the cells of the notebook that was read
    new_cells,  \* edit: the cells parsed from the edited text, updated in place
    remaining,  \* edit: apply_diff's copy of prev_cells, consumed match by match
    nxt,        \* edit: the index of the next new cell apply_diff looks at
    nb_cells,   \* edit: the cells of the notebook on disk
    mpc,        \* edit: position ("diff", "merged", "written")
    file_text,  \* stamp: the text of the script file on disk
    req,        \* stamp: the arguments of the last call of stamp
    action,     \* stamp: what the last call of stamp returned or raised
    py_text,    \* convert: the text of the script file
    notebook,   \* convert: what load_script_notebook returned or raised
    out_text,   \* convert: the script text cat returned
    vpc,        \* convert: position ("script", "notebook", "error", "printed")
    locate,     \* to_notebook: the notebook that was read and what was located
    stampfile,  \* stamp(path): the file on disk, the call and its outcome
    syncer,     \* sync: the notebook, the staged files and the position
    editor,     \* open_editor and edit: the temporary file, the editor, the notebook file
    clock,      \* parse_offset_datetime: the string and what it resolved to
    cli,        \* the stamp command: its options and what it did
    runner,     \* run: the options and the uv argument list built from them
    managed,    \* managed run: the child, the queue, the two threads
    magic,      \* the IPython extension: the hook, the clock, the recorded source
    replacer    \* replace-mode run: the child, the lockfile, the position

codecVars == <<toml, segs, text, parsed, cpc>>
mergeVars == <<prev_cells, new_cells, remaining, nxt, nb_cells, mpc>>
stampVars == <<file_text, req, action>>
convVars == <<py_text, notebook, out_text, vpc>>
auxVars == <<locate, stampfile, syncer, editor, clock, cli>>
lateVars == <<runner, managed, magic, replacer>>
vars == <<codecVars, mergeVars, stampVars, convVars, auxVars, lateVars>>

\* the value of the variables of a component that is not running
Idle == "idle"

CodecIdle == toml = Idle /\ segs = Idle /\ text = Idle /\ parsed = Idle /\ cpc = Idle

StampIdle == file_text = Idle /\ req = Idle /\ action = Idle

ConvIdle == py_text = Idle /\ notebook = Idle /\ out_text = Idle /\ vpc = Idle

\* the runners and the extension are not running, but the named one
LateIdleBut(name) ==
    /\ (name # "runner" => runner = Idle)
    /\ (name # "managed" => managed = Idle)
    /\ (name # "magic" => magic = Idle)
    /\ (name # "replacer" => replacer = Idle)

\* the components with one variable each are not running, but the named one
AuxIdleBut(name) ==
    /\ (name \notin {"runner", "managed", "magic", "replacer"} => LateIdleBut("none"))
    /\ (name # "locate" => locate = Idle)
    /\ (name # "stampfile" => stampfile = Idle)
    /\ (name # "syncer" => syncer = Idle)
    /\ (name # "editor" => editor = Idle)
    /\ (name # "clock" => clock = Idle)
    /\ (name # "cli" => cli = Idle)

AuxIdle == AuxIdleBut("none")

MergeIdle ==
    /\ prev_cells = Idle
    /\ new_cells = Idle
    /\ remaining = Idle
    /\ nxt = Idle
    /\ nb_cells = Idle
    /\ mpc = Idle

\* every component with several variables is not running
MainIdle == CodecIdle /\ MergeIdle /\ StampIdle /\ ConvIdle

-----------------------------------------------------------------------------
(* Symbols and Python's str operations                                     *)

NL == "\n"
CR == "\r"

\* [a-zA-Z0-9-]: the words of the model are made of these characters only
TypeSyms == {"script", "other", "a", "b"}

\* str.isspace() on the symbols of the model
IsSpace(c) == c \in {" ", NL, CR}

\* the line boundaries str.splitlines() recognises, among the symbols of the model
IsLineBreak(c) == c \in {NL, CR}

Max(S) == CHOOSE x \in S : \A y \in S : y <= x
Min(S) == CHOOSE x \in S : \A y \in S : x <= y

RECURSIVE Concat(_)
Concat(ss) == IF ss = <<>> THEN <<>> ELSE Head(ss) \o Concat(Tail(ss))

\* sep.join(parts)
RECURSIVE Join(_, _)
Join(sep, parts) ==
    IF parts = <<>> THEN <<>>
    ELSE IF Len(parts) = 1 THEN parts[1]
    ELSE parts[1] \o sep \o Join(sep, Tail(parts))

\* The lines the (?m) anchors ^ and $ see: the text cut at every newline.
RECURSIVE SplitNL(_)
SplitNL(t) ==
    IF \A i \in 1..Len(t) : t[i] # NL THEN <<t>>
    ELSE LET p == Min({i \in 1..Len(t) : t[i] = NL})
         IN <<SubSeq(t, 1, p - 1)>> \o SplitNL(SubSeq(t, p + 1, Len(t)))

\* str.splitlines(keepends=True): pieces end at "\n", "\r" or "\r\n"; no
\* empty last piece.
RECURSIVE SplitLinesKeep(_)
SplitLinesKeep(t) ==
    IF t = <<>> THEN <<>>
    ELSE IF \A i \in 1..Len(t) : ~IsLineBreak(t[i]) THEN <<t>>
    ELSE LET p == Min({i \in 1..Len(t) : IsLineBreak(t[i])})
             q == IF t[p] = CR /\ p < Len(t) /\ t[p + 1] = NL THEN p + 1 ELSE p
         IN <<SubSeq(t, 1, q)>> \o SplitLinesKeep(SubSeq(t, q + 1, Len(t)))

\* a piece of splitlines(keepends=True) without its line ending
DropEnd(p) ==
    IF Len(p) >= 2 /\ p[Len(p) - 1] = CR /\ p[Len(p)] = NL THEN SubSeq(p, 1, Len(p) - 2)
    ELSE IF Len(p) >= 1 /\ IsLineBreak(p[Len(p)]) THEN SubSeq(p, 1, Len(p) - 1)
    ELSE p

\* str.splitlines()
SplitLines(t) == LET ps == SplitLinesKeep(t) IN [i \in 1..Len(ps) |-> DropEnd(ps[i])]

\* str.strip()
Strip(t) ==
    LET keep == {i \in 1..Len(t) : ~IsSpace(t[i])}
    IN IF keep = {} THEN <<>> ELSE SubSeq(t, Min(keep), Max(keep))

-----------------------------------------------------------------------------
(* _utils.py: REGEX and parse_inline_script_metadata                       *)

StartPrefix == <<"#", " ", "/", "/", "/", " ">>
EndLine == <<"#", " ", "/", "/", "/">>
ScriptName == <<"script">>
StartLine(type) == StartPrefix \o type

NoType == <<>>

\* ^# /// (?P<type>[a-zA-Z0-9-]+)$ on one line: the type, or NoType
StartType(line) ==
    IF /\ Len(line) > Len(StartPrefix)
       /\ SubSeq(line, 1, Len(StartPrefix)) = StartPrefix
       /\ \A i \in (Len(StartPrefix) + 1)..Len(line) : line[i] \in TypeSyms
    THEN SubSeq(line, Len(StartPrefix) + 1, Len(line))
    ELSE NoType

\* ^#(| .*)$ on one line
IsContentLine(line) ==
    /\ Len(line) >= 1
    /\ line[1] = "#"
    /\ (Len(line) = 1 \/ line[2] = " ")

\* a plausible slip: any comment line closes a block
IsEndLine_any_comment(line) == IsContentLine(line)

\* ^# ///$ on one line
IsEndLine(line) == line = EndLine

\* The line on which a match that starts on line i ends, 0 if none starts
\* there.  (...)+ is greedy: the content takes as many comment lines as it
\* can and gives lines back until a "# ///" line follows, so the match ends
\* on the last "# ///" of the unbroken run of comment lines after line i,
\* with at least one content line before it.
MatchEnd(lines, i) ==
    LET run  == {j \in (i + 1)..Len(lines) :
                    \A m \in (i + 1)..j : IsContentLine(lines[m])}
        ends == {j \in run : j >= i + 2 /\ IsEndLine(lines[j])}
    IN IF StartType(lines[i]) = NoType \/ ends = {} THEN 0 ELSE Max(ends)

\* re.finditer(REGEX, script): the non-overlapping matches, left to right,
\* each as [first, last, type] over the lines of the script.
RECURSIVE FindIter(_, _)
FindIter(lines, i) ==
    IF i > Len(lines) THEN <<>>
    ELSE IF MatchEnd(lines, i) # 0
         THEN <<[first |-> i, last |-> MatchEnd(lines, i), type |-> StartType(lines[i])]>>
                  \o FindIter(lines, MatchEnd(lines, i) + 1)
         ELSE FindIter(lines, i + 1)

REGEX(script) == FindIter(SplitNL(script), 1)

\* m.group("content"): the content lines, each with its newline
GroupContent(script, m) ==
    LET lines == SplitNL(script)
    IN Concat([k \in 1..(m.last - m.first - 1) |-> lines[m.first + k] \o <<NL>>])

\* m.group(0): the matched span, delimiters included
GroupAll(script, m) ==
    LET lines == SplitNL(script)
    IN Join(<<NL>>, SubSeq(lines, m.first, m.last))

\* a plausible slip: two characters are dropped from every line
StripPrefix_always_two(line) == SubSeq(line, 3, Len(line))

\* line[2:] if line.startswith("# ") else line[1:]
StripPrefix(line) ==
    IF Len(line) >= 2 /\ line[1] = "#" /\ line[2] = " "
    THEN SubSeq(line, 3, Len(line))
    ELSE SubSeq(line, 2, Len(line))

DecodeContent(content) ==
    LET ps == SplitLinesKeep(content)
    IN Concat([i \in 1..Len(ps) |-> StripPrefix(ps[i])])

IsScript(m) == m.type = ScriptName

ScriptMatches(script) == SelectSeq(REGEX(script), IsScript)

ParseNone == [kind |-> "none"]
ParseError == [kind |-> "error", msg |-> "Multiple script blocks found"]
ParseOk(c) == [kind |-> "ok", content |-> c]

\* a plausible slip: every block counts, whatever its tag
parse_inline_script_metadata_anytag(script) ==
    LET matches == REGEX(script)
    IN IF Len(matches) > 1 THEN ParseError
       ELSE IF Len(matches) = 1
            THEN ParseOk(DecodeContent(GroupContent(script, matches[1])))
            ELSE ParseNone

parse_inline_script_metadata(script) ==
    LET matches == ScriptMatches(script)
    IN IF Len(matches) > 1 THEN ParseError
       ELSE IF Len(matches) = 1
            THEN ParseOk(DecodeContent(GroupContent(script, matches[1])))
            ELSE ParseNone

-----------------------------------------------------------------------------
(* _stamp.py, lines 137-143: the block written for a TOML text             *)

\* f"# {line}" if line else "#"
CommentLine(line) == IF line # <<>> THEN <<"#", " ">> \o line ELSE <<"#">>

EncodeContent(new_toml) ==
    LET ls == SplitLines(new_toml)
    IN Join(<<NL>>, <<StartLine(ScriptName)>>
                      \o [i \in 1..Len(ls) |-> CommentLine(ls[i])]
                      \o <<EndLine>>)

-----------------------------------------------------------------------------
(* The codec as a state machine: a TOML text is encoded and the block      *)
(* parsed back, or a text assembled from segments is parsed.               *)

MaxTomlLen == 4
MaxSegs == 3

NoToml == <<"<none>">>

TomlSyms == {"a", " ", "#", "/", NL, CR}

RECURSIVE TextsUpTo(_, _)
TextsUpTo(syms, n) ==
    IF n = 0 THEN {<<>>}
    ELSE LET shorter == TextsUpTo(syms, n - 1)
         IN shorter \cup {Append(t, c) : t \in {u \in shorter : Len(u) = n - 1}, c \in syms}

TomlTexts == TextsUpTo(TomlSyms, MaxTomlLen)

\* The segments a text is assembled from (joined by newlines).
SegKinds == {"script", "script2", "other", "code", "comment", "blank", "open", "bare"}

SegText(k) ==
    CASE k = "script"  -> Join(<<NL>>, <<StartLine(ScriptName), <<"#", " ", "a">>, EndLine>>)
      [] k = "script2" -> Join(<<NL>>, <<StartLine(ScriptName), <<"#", " ", "b">>, <<"#">>, EndLine>>)
      [] k = "other"   -> Join(<<NL>>, <<StartLine(<<"other">>), <<"#", " ", "a">>, EndLine>>)
      [] k = "code"    -> <<"x">>
      [] k = "comment" -> <<"#", " ", "c">>
      [] k = "blank"   -> <<>>
      [] k = "open"    -> Join(<<NL>>, <<StartLine(ScriptName), <<"#", " ", "a">>>>)
      [] k = "bare"    -> Join(<<NL>>, <<StartLine(ScriptName), EndLine>>)

RECURSIVE SeqsUpTo(_, _)
SeqsUpTo(S, n) ==
    IF n = 0 THEN {<<>>}
    ELSE LET shorter == SeqsUpTo(S, n - 1)
         IN shorter \cup {Append(t, c) : t \in {u \in shorter : Len(u) = n - 1}, c \in S}

Assemble(ks) == Join(<<NL>>, [i \in 1..Len(ks) |-> SegText(ks[i])])

CodecInit ==
    /\ MergeIdle
    /\ StampIdle
    /\ ConvIdle
    /\ AuxIdle
    /\ parsed = Idle
    /\ \/ /\ toml \in TomlTexts
          /\ segs = <<>>
          /\ text = <<>>
          /\ cpc = "toml"
       \/ /\ toml = NoToml
          /\ segs \in SeqsUpTo(SegKinds, MaxSegs)
          /\ text = Assemble(segs)
          /\ cpc = "text"

Encode ==
    /\ cpc = "toml"
    /\ text' = EncodeContent(toml)
    /\ cpc' = "text"
    /\ UNCHANGED <<toml, segs, parsed, mergeVars, stampVars, convVars, auxVars, lateVars>>

Parse ==
    /\ cpc = "text"
    /\ parsed' = parse_inline_script_metadata(text)
    /\ cpc' = "done"
    /\ UNCHANGED <<toml, segs, text, mergeVars, stampVars, convVars, auxVars, lateVars>>

CodecNext == Encode \/ Parse

SpecCodec == CodecInit /\ [][CodecNext]_vars

-----------------------------------------------------------------------------
(* Claims about the codec                                                  *)

Sentinels == {EndLine, <<"/", "/", "/">>}

HasSentinelLine(t) == \E i \in 1..Len(SplitLines(t)) : SplitLines(t)[i] \in Sentinels

\* every line of t ends with "\n" and t holds no other line break
NewlineTerminated(t) ==
    /\ t # <<>>
    /\ t[Len(t)] = NL
    /\ \A i \in 1..Len(t) : t[i] # CR

\* t with every line break written as "\n" and the last line terminated
Normalised(t) == LET ls == SplitLines(t) IN Concat([i \in 1..Len(ls) |-> ls[i] \o <<NL>>])

RoundTripDone == cpc = "done" /\ toml # NoToml

\* C7 as stated: for every TOML text t without a line equal to the end
\* sentinel, decoding the block that encodes t returns exactly t.
C7_InverseLaw ==
    (RoundTripDone /\ ~HasSentinelLine(toml)) => parsed = ParseOk(toml)

\* C7 amended: decoding the block that encodes t returns t with every line
\* break written as "\n" and a "\n" after the last line, which is t itself
\* exactly when t is not empty, ends with "\n" and holds no other line break;
\* the block of the empty text has no content line and decodes to None.
C7_InverseLawNormalised ==
    RoundTripDone =>
        /\ (toml = <<>>) => parsed = ParseNone
        /\ (toml # <<>>) => parsed = ParseOk(Normalised(toml))
        /\ (parsed = ParseOk(toml)) <=> NewlineTerminated(toml)

\* a round trip that returned its input, with an empty line in it
C7_Witness ==
    /\ RoundTripDone
    /\ parsed = ParseOk(toml)
    /\ \E i \in 1..Len(SplitLines(toml)) : SplitLines(toml)[i] = <<>>
    /\ \E i \in 1..Len(toml) : toml[i] = "a"

ScriptBlockKinds == {"script", "script2"}
ScriptStartKinds == {"script", "script2", "open", "bare"}
NonCommentKinds == {"code", "blank"}

ParsedSegs == cpc = "done" /\ toml = NoToml

\* the script blocks of the text that start the text or follow a line that
\* is no comment line
IsolatedBlocks == {i \in 1..Len(segs) : segs[i] \in ScriptBlockKinds /\ (i = 1 \/ segs[i - 1] \in NonCommentKinds)}

\* C8 as stated: a text with two script blocks raises "Multiple script
\* blocks found", also when the two blocks are directly adjacent.
C8_TwoBlocksRaise ==
    (ParsedSegs /\ Cardinality({i \in 1..Len(segs) : segs[i] \in ScriptBlockKinds}) >= 2)
        => parsed = ParseError

\* C8 amended: a text raises "Multiple script blocks found" when it holds
\* two script blocks each of which starts the text or follows a line that is
\* no comment line; two blocks joined by an unbroken run of comment lines
\* are one match and raise nothing by themselves.  Blocks with another tag
\* never count: a text with at most one script start line never raises.
C8_SeparatedBlocksRaise ==
    ParsedSegs =>
        /\ (Cardinality(IsolatedBlocks) >= 2) => parsed = ParseError
        /\ (Cardinality({i \in 1..Len(segs) : segs[i] \in ScriptStartKinds}) <= 1)
               => parsed # ParseError

\* two script blocks with a line of code between them were parsed
C8_Witness ==
    /\ ParsedSegs
    /\ Cardinality(IsolatedBlocks) >= 2
    /\ parsed = ParseError

\* the text has a script start line, and no "# ///" line after its first
\* script start line
Unterminated(t) ==
    LET lines == SplitNL(t)
        starts == {i \in 1..Len(lines) : lines[i] = StartLine(ScriptName)}
    IN /\ starts # {}
       /\ \A j \in 1..Len(lines) : (j > Min(starts)) => lines[j] # EndLine

\* C21: a text with a script start line that no "# ///" line closes is
\* parsed to None; no error is raised.
C21_UnterminatedIsNoBlock ==
    (ParsedSegs /\ Unterminated(text)) => parsed = ParseNone

\* an unterminated block followed by a comment line and a line of code was
\* parsed to None
C21_Witness ==
    /\ ParsedSegs
    /\ segs = <<"open", "comment", "code">>
    /\ parsed = ParseNone

-----------------------------------------------------------------------------
(* _edit.py: apply_diff                                                    *)

\* difflib.SequenceMatcher.find_longest_match(alo, ahi, blo, bhi) without
\* junk (isjunk=None; the autojunk heuristic needs 200 characters): the
\* blocks a[i..i+n-1] = b[j..j+n-1] within the two ranges
MatchingBlocks(a, b, alo, ahi, blo, bhi) ==
    {m \in (alo..ahi) \X (blo..bhi) \X (1..(ahi - alo + 1)) :
        /\ m[1] + m[3] - 1 <= ahi
        /\ m[2] + m[3] - 1 <= bhi
        /\ SubSeq(a, m[1], m[1] + m[3] - 1) = SubSeq(b, m[2], m[2] + m[3] - 1)}

\* the longest block; of the longest, the one that starts earliest in a; of
\* those, the one that starts earliest in b
LongestMatch(ms) ==
    CHOOSE m \in ms : \A o \in ms :
        \/ m[3] > o[3]
        \/ m[3] = o[3] /\ m[1] < o[1]
        \/ m[3] = o[3] /\ m[1] = o[1] /\ m[2] <= o[2]

\* get_matching_blocks: the longest block, then the same to its left and to
\* its right; the total number of matched characters
RECURSIVE Matches(_, _, _, _, _, _)
Matches(a, b, alo, ahi, blo, bhi) ==
    LET ms == MatchingBlocks(a, b, alo, ahi, blo, bhi)
    IN IF alo > ahi \/ blo > bhi \/ ms = {} THEN 0
       ELSE LET m == LongestMatch(ms)
            IN m[3] + Matches(a, b, alo, m[1] - 1, blo, m[2] - 1)
                    + Matches(a, b, m[1] + m[3], ahi, m[2] + m[3], bhi)

\* SequenceMatcher.ratio(): 2.0 * matches / (len(a) + len(b)), and 1.0 for
\* two empty strings; kept as a fraction num/den
Ratio(a, b) ==
    IF Len(a) + Len(b) = 0 THEN [num |-> 1, den |-> 1]
    ELSE [num |-> 2 * Matches(a, b, 1, Len(a), 1, Len(b)), den |-> Len(a) + Len(b)]

\* min_similarity: float = 0.8
MinSimilarityNum == 4
MinSimilarityDen == 5

\* score == 1.0
IsOne(r) == r.num = r.den

\* x > y on two scores
Greater(x, y) == x.num * y.den > y.num * x.den

\* a plausible slip: a threshold of 0.5
AboveMin_half(r) == r.num * 2 > r.den

\* a plausible slip: score >= min_similarity
AboveMin_or_equal(r) == r.num * MinSimilarityDen >= MinSimilarityNum * r.den

\* score > min_similarity
AboveMin(r) == r.num * MinSimilarityDen > MinSimilarityNum * r.den

Absent == -1

\* update(prev, new): id, outputs and execution_count are copied when prev
\* has them
update(prev, new) ==
    [new EXCEPT !.id = IF prev.id # Absent THEN prev.id ELSE @,
                !.outputs = IF prev.outputs # Absent THEN prev.outputs ELSE @,
                !.execution_count = IF prev.execution_count # Absent
                                    THEN prev.execution_count ELSE @]

\* list.remove(list[i])
RemoveAt(seq, i) == SubSeq(seq, 1, i - 1) \o SubSeq(seq, i + 1, Len(seq))

\* the score of every previous cell against the new cell: ratio() of
\* SequenceMatcher(a=new source, b=prev source)
Scores(new, prevs) == [i \in 1..Len(prevs) |-> Ratio(new.source, prevs[i].source)]

\* a plausible slip: the previous cells are scanned from the end
ExactAt_last(scores) ==
    LET hits == {i \in 1..Len(scores) : IsOne(scores[i])}
    IN IF hits = {} THEN 0 ELSE Max(hits)

\* the inner loop: the first previous cell that scores 1.0, where the loop
\* breaks; 0 if the loop runs to its end
ExactAt(scores) ==
    LET hits == {i \in 1..Len(scores) : IsOne(scores[i])}
    IN IF hits = {} THEN 0 ELSE Min(hits)

\* the scores appended before the loop ended: those of the cells before the
\* exact match, or of all cells
Scored(scores) ==
    IF ExactAt(scores) = 0 THEN 1..Len(scores) ELSE 1..(ExactAt(scores) - 1)

\* max(scores, key=operator.itemgetter(0)): the first of the best scores
BestAt(scores) ==
    LET S == Scored(scores)
    IN Min({i \in S : \A j \in S : ~Greater(scores[j], scores[i])})

\* One pass of the outer loop for one new cell: the cell as updated and the
\* previous cells that are left.  An exact match is removed and copied, the
\* inner loop breaks, and the scores collected before it are still looked at.
DiffCell(new, prevs) ==
    LET scores == Scores(new, prevs)
        e == ExactAt(scores)
        new1 == IF e # 0 THEN update(prevs[e], new) ELSE new
        prevs1 == IF e # 0 THEN RemoveAt(prevs, e) ELSE prevs
    IN IF Scored(scores) # {} /\ AboveMin(scores[BestAt(scores)])
       THEN [new |-> update(prevs[BestAt(scores)], new1),
             prevs |-> RemoveAt(prevs1, BestAt(scores))]
       ELSE [new |-> new1, prevs |-> prevs1]

-----------------------------------------------------------------------------
(* The merge of an edit as a state machine                                 *)

MaxPrev == 2
MaxNew == 2

\* what a cell of the edited text or of the notebook can hold
CellKinds ==
    {[cell_type |-> "code", source |-> <<"a", "b", "c">>],
     [cell_type |-> "code", source |-> <<"a", "b", "c", "d">>],
     [cell_type |-> "code", source |-> <<"a", "b">>],
     [cell_type |-> "markdown", source |-> <<"a", "b", "c", "d">>],
     [cell_type |-> "code", source |-> <<>>]}

\* the i-th cell of the notebook on disk: a code cell has outputs and an
\* execution count, a markdown cell has neither
PrevCell(kind, i) ==
    [cell_type |-> kind.cell_type, source |-> kind.source, id |-> i,
     outputs |-> IF kind.cell_type = "code" THEN i ELSE Absent,
     execution_count |-> IF kind.cell_type = "code" THEN i ELSE Absent]

\* the j-th cell jupytext.reads(text, fmt="md") builds: a fresh id, and for
\* a code cell no outputs (0) and no execution count (0)
NewCell(kind, j) ==
    [cell_type |-> kind.cell_type, source |-> kind.source, id |-> 100 + j,
     outputs |-> IF kind.cell_type = "code" THEN 0 ELSE Absent,
     execution_count |-> IF kind.cell_type = "code" THEN 0 ELSE Absent]

MergeInit ==
    /\ CodecIdle
    /\ StampIdle
    /\ ConvIdle
    /\ AuxIdle
    /\ \E ps \in SeqsUpTo(CellKinds, MaxPrev) :
          prev_cells = [i \in 1..Len(ps) |-> PrevCell(ps[i], i)]
    /\ \E ns \in SeqsUpTo(CellKinds, MaxNew) :
          new_cells = [j \in 1..Len(ns) |-> NewCell(ns[j], j)]
    /\ remaining = prev_cells
    /\ nb_cells = prev_cells
    /\ nxt = 1
    /\ mpc = "diff"

\* for new in new_cells: ...
ApplyDiffCell ==
    /\ mpc = "diff"
    /\ nxt <= Len(new_cells)
    /\ LET r == DiffCell(new_cells[nxt], remaining)
       IN /\ new_cells' = [new_cells EXCEPT ![nxt] = r.new]
          /\ remaining' = r.prevs
    /\ nxt' = nxt + 1
    /\ UNCHANGED <<prev_cells, nb_cells, mpc, codecVars, stampVars, convVars, auxVars, lateVars>>

ApplyDiffReturn ==
    /\ mpc = "diff"
    /\ nxt > Len(new_cells)
    /\ mpc' = "merged"
    /\ UNCHANGED <<prev_cells, new_cells, remaining, nxt, nb_cells, codecVars, stampVars, convVars, auxVars, lateVars>>

\* prev_notebook["cells"] = new_notebook["cells"]; path.write_text(...)
EditWrite ==
    /\ mpc = "merged"
    /\ nb_cells' = new_cells
    /\ mpc' = "written"
    /\ UNCHANGED <<prev_cells, new_cells, remaining, nxt, codecVars, stampVars, convVars, auxVars, lateVars>>

MergeNext == ApplyDiffCell \/ ApplyDiffReturn \/ EditWrite

SpecMerge == MergeInit /\ [][MergeNext]_vars

-----------------------------------------------------------------------------
(* Claims about the merge                                                  *)

\* the edit changed no cell: same sources and cell types, in the same order
SameText ==
    /\ Len(new_cells) = Len(prev_cells)
    /\ \A i \in 1..Len(prev_cells) :
          /\ new_cells[i].source = prev_cells[i].source
          /\ new_cells[i].cell_type = prev_cells[i].cell_type

\* C3: after merging an edit that changed no cell's text, the i-th cell of
\* the notebook carries the id, outputs and execution count of the i-th
\* previous cell, for every i.
C3_UnchangedEditKeepsState ==
    (mpc = "written" /\ SameText) =>
        \A i \in 1..Len(prev_cells) :
            /\ nb_cells[i].id = prev_cells[i].id
            /\ nb_cells[i].outputs = prev_cells[i].outputs
            /\ nb_cells[i].execution_count = prev_cells[i].execution_count

\* an unchanged edit of two code cells with the same source was merged
C3_Witness ==
    /\ mpc = "written"
    /\ SameText
    /\ Len(prev_cells) = 2
    /\ prev_cells[1].source = prev_cells[2].source
    /\ prev_cells[1].cell_type = "code"

\* apply_diff has just looked at new cell nxt
DiffStep == mpc = "diff" /\ nxt' = nxt + 1

\* the previous cells left that score exactly 1.0 against new cell nxt
ExactHits ==
    {i \in 1..Len(remaining) : IsOne(Ratio(new_cells[nxt].source, remaining[i].source))}

\* C4 as stated: if a previous cell that is left scores exactly 1.0 against
\* the new cell, that cell and no other is consumed, and the new cell ends
\* up with its id, outputs and execution count.
C4_ExactMatchWins ==
    [][(DiffStep /\ ExactHits # {}) =>
          \E e \in ExactHits :
              /\ remaining' = RemoveAt(remaining, e)
              /\ new_cells'[nxt] = update(remaining[e], new_cells[nxt])]_vars

\* the previous cells left whose score against new cell nxt no other beats
BestHits ==
    {i \in 1..Len(remaining) : \A j \in 1..Len(remaining) :
        LET si == Ratio(new_cells[nxt].source, remaining[i].source)
            sj == Ratio(new_cells[nxt].source, remaining[j].source)
        IN sj.num * si.den <= si.num * sj.den}

\* C5: when no previous cell that is left is a perfect match, the new cell
\* takes id, outputs and execution count of a best-scoring previous cell,
\* which is consumed, exactly when that score is above 0.8 (4/5); at 0.8 or
\* below nothing is transferred and nothing is consumed.
C5_ThresholdMatch ==
    [][(DiffStep /\ ExactHits = {}) =>
          IF \E b \in BestHits :
                 LET sb == Ratio(new_cells[nxt].source, remaining[b].source)
                 IN 5 * sb.num > 4 * sb.den
          THEN \E b \in BestHits :
                  /\ remaining' = RemoveAt(remaining, b)
                  /\ new_cells'[nxt] = update(remaining[b], new_cells[nxt])
          ELSE /\ remaining' = remaining
               /\ new_cells' = new_cells]_vars

PrevIds == {prev_cells[i].id : i \in 1..Len(prev_cells)}

\* a new cell took the state of a previous cell with another source, and no
\* previous cell had its source
C5_Witness ==
    /\ mpc = "merged"
    /\ \E j \in 1..Len(new_cells) :
          /\ new_cells[j].id \in PrevIds
          /\ prev_cells[new_cells[j].id].source # new_cells[j].source
          /\ \A i \in 1..Len(prev_cells) : prev_cells[i].source # new_cells[j].source

\* the new cells that score below 0.8 against every previous cell
Unrelated ==
    {j \in 1..Len(new_cells) : \A i \in 1..Len(prev_cells) :
        LET r == Ratio(new_cells[j].source, prev_cells[i].source)
        IN 5 * r.num < 4 * r.den}

\* C6: after a merge every new cell that scores below 0.8 against all
\* previous cells has its fresh id and no outputs and no execution count of
\* a previous cell, and the id and outputs of the previous cells that were
\* never matched appear nowhere in the merged list.
C6_UnmatchedAreDropped ==
    (mpc = "written") =>
        /\ \A j \in Unrelated :
              /\ nb_cells[j].id = 100 + j
              /\ nb_cells[j].outputs \in {0, Absent}
              /\ nb_cells[j].execution_count \in {0, Absent}
        /\ \A i \in 1..Len(remaining) : \A j \in 1..Len(nb_cells) :
              /\ nb_cells[j].id # remaining[i].id
              /\ (remaining[i].outputs # Absent) => nb_cells[j].outputs # remaining[i].outputs

\* a merge in which a new cell matched nothing and a previous code cell was
\* left over, next to a cell that did match
C6_Witness ==
    /\ mpc = "written"
    /\ Unrelated # {}
    /\ \E i \in 1..Len(remaining) : remaining[i].cell_type = "code"
    /\ \E j \in 1..Len(nb_cells) : nb_cells[j].id \in PrevIds

\* the previous cells whose id, outputs or execution count the cell carries
CarriedFrom(cell) ==
    {cell.id, cell.outputs, cell.execution_count} \cap (1..Len(prev_cells))

\* no two merged cells carry the id, the outputs or the execution count
\* of the same previous cell
ConsumedOnce ==
    mpc # "diff" =>
        \A i, j \in 1..Len(new_cells) :
            (i # j) => CarriedFrom(new_cells[i]) \cap CarriedFrom(new_cells[j]) = {}

\* C25: after apply_diff no two cells of the merged list carry the id or
\* the outputs of the same previous cell, and every merged cell carries
\* the state of at most one previous cell.
C25_OneSourcePerCell ==
    mpc # "diff" =>
        /\ \A i, j \in 1..Len(new_cells) :
              (i # j) => CarriedFrom(new_cells[i]) \cap CarriedFrom(new_cells[j]) = {}
        /\ \A j \in 1..Len(new_cells) : Cardinality(CarriedFrom(new_cells[j])) <= 1

-----------------------------------------------------------------------------
(* _pep723.py: extract_inline_meta                                         *)

ExtractError == [kind |-> "error", msg |-> "Multiple script blocks found"]
ExtractNone(t) == [kind |-> "none", rest |-> t]

\* The script block of a text and the text without it: the matched span,
\* delimiters included, and the text with that span removed.
extract_inline_meta(t) ==
    LET matches == ScriptMatches(t)
        lines == SplitNL(t)
    IN IF Len(matches) > 1 THEN ExtractError
       ELSE IF Len(matches) = 0 THEN ExtractNone(t)
       ELSE [kind |-> "ok",
             block |-> GroupAll(t, matches[1]),
             rest |-> Join(<<NL>>, SubSeq(lines, 1, matches[1].first - 1)
                                      \o <<<<>>>>
                                      \o SubSeq(lines, matches[1].last + 1, Len(lines)))]

-----------------------------------------------------------------------------
(* _stamp.py: the TOML document of tomlkit and update_inline_metadata      *)

None == "None"

\* the strings tool.uv.exclude-newer can hold: the empty string, and the
\* strings format_common_iso() writes for the moments of the model
Moments == {"t1", "t2"}
StoredStrings == {""} \cup Moments

\* A TOML document, as far as stamp looks at it: whether it has top-level
\* keys (top), a tool table (tool), a tool table other than tool.uv (other),
\* a tool.uv table (uv), a key of tool.uv other than exclude-newer (key),
\* and the value of tool.uv.exclude-newer or None (en).
Metas ==
    {m \in [top : BOOLEAN, tool : BOOLEAN, other : BOOLEAN, uv : BOOLEAN,
            key : BOOLEAN, en : StoredStrings \cup {None}] :
        /\ (m.other \/ m.uv) => m.tool
        /\ (m.key \/ m.en # None) => m.uv}

QuotedString(v) == <<"\"">> \o (IF v = "" THEN <<>> ELSE <<v>>) \o <<"\"">>

\* tomlkit.dumps(meta): the top-level keys, then one table after the other
Dumps(m) ==
    LET top == IF m.top THEN <<<<"dependencies = []">>>> ELSE <<>>
        tool == IF m.tool /\ ~m.uv /\ ~m.other THEN <<<<"[tool]">>>> ELSE <<>>
        uv == IF m.uv
              THEN <<<<"[tool.uv]">>>>
                   \o (IF m.key THEN <<<<"index-url = 'u'">>>> ELSE <<>>)
                   \o (IF m.en # None
                       THEN <<<<"exclude-newer", " ", "=", " ">> \o QuotedString(m.en)>>
                       ELSE <<>>)
              ELSE <<>>
        other == IF m.other THEN <<<<"[tool.x]">>, <<"y = 1">>>> ELSE <<>>
        lines == top \o tool \o uv \o other
    IN Concat([i \in 1..Len(lines) |-> lines[i] \o <<NL>>])

\* tomlkit.parse(toml): the document a text is the serialisation of;
\* whitespace around the text is not significant
Serialised == [m \in Metas |-> Strip(Dumps(m))]
IsToml(t) == LET st == Strip(t) IN \E m \in Metas : Serialised[m] = st
TomlParse(t) == LET st == Strip(t) IN CHOOSE m \in Metas : Serialised[m] = st

\* str.replace(old, new) for a non-empty old
RECURSIVE Replace(_, _, _)
Replace(t, old, new) ==
    IF Len(t) < Len(old) THEN t
    ELSE IF SubSeq(t, 1, Len(old)) = old
         THEN new \o Replace(SubSeq(t, Len(old) + 1, Len(t)), old, new)
         ELSE <<t[1]>> \o Replace(Tail(t), old, new)

DeleteAction(previous) == [kind |-> "DeleteAction", previous |-> previous, value |-> None]
CreateAction(value) == [kind |-> "CreateAction", previous |-> None, value |-> value]
UpdateAction(previous, value) == [kind |-> "UpdateAction", previous |-> previous, value |-> value]
ValueError(msg) == [kind |-> "ValueError", msg |-> msg]

\* dt.format_common_iso(): the string of a moment
format_common_iso(dt) == dt

\* a plausible slip: "if not previous" instead of "if previous is None"
IsNone_falsy(previous) == previous = None \/ previous = ""

\* previous is None
IsNone(previous) == previous = None

\* a plausible slip: the tables created at lines 112-118 are never dropped
Cleared_keep_tables(meta) == [meta EXCEPT !.tool = TRUE, !.uv = TRUE, !.en = None]

\* if dt is None: pop exclude-newer, and drop the tables left empty
Cleared(meta) ==
    LET uv_empty == ~meta.key
        tool_empty == uv_empty /\ ~meta.other
    IN [top |-> meta.top, tool |-> ~tool_empty, other |-> meta.other,
        uv |-> ~uv_empty, key |-> meta.key, en |-> None]

\* else: tool and tool.uv are created when missing and the field is set
Stamped(meta, current) == [meta EXCEPT !.tool = TRUE, !.uv = TRUE, !.en = current]

update_inline_metadata(text_in, dt) ==
    LET ex == extract_inline_meta(text_in)
    IN IF ex.kind = "error" THEN ValueError(ex.msg)
       ELSE IF ex.kind = "none" THEN ValueError("No PEP 723 metadata block found.")
       ELSE LET p == parse_inline_script_metadata(ex.block)
            IN IF p.kind = "error" THEN ValueError(p.msg)
               ELSE IF p.kind = "none"
                    THEN ValueError("No TOML metadata found in the PEP 723 metadata block.")
               ELSE IF ~IsToml(p.content) THEN ValueError("tomlkit: parse error")
               ELSE LET meta == TomlParse(p.content)
                        previous == meta.en
                        current == format_common_iso(dt)
                        new_meta == IF dt = None THEN Cleared(meta) ELSE Stamped(meta, current)
                        act == IF dt = None THEN DeleteAction(previous)
                               ELSE IF IsNone(previous) THEN CreateAction(current)
                               ELSE UpdateAction(previous, current)
                        new_toml == Strip(Dumps(new_meta))
                    IN [kind |-> "ok",
                        script |-> Replace(text_in, ex.block, EncodeContent(new_toml)),
                        action |-> act]

-----------------------------------------------------------------------------
(* Stamping a script file, call after call                                 *)

\* resolve_offset_datetime: None for clear, else the moment asked for
Requests == [clear : {TRUE}, dt : {None}] \cup [clear : {FALSE}, dt : Moments]

Before == {<<>>, <<"x", NL>>}
After == {<<>>, <<NL, "y">>, <<NL>>}

StampInit ==
    /\ CodecIdle
    /\ MergeIdle
    /\ ConvIdle
    /\ AuxIdle
    /\ \E m \in Metas, b \in Before, a \in After :
          file_text = b \o EncodeContent(Strip(Dumps(m))) \o a
    /\ req = [clear |-> FALSE, dt |-> None]
    /\ action = [kind |-> "none"]

\* stamp(path, ...) for a path that is no notebook
StampScript ==
    \E r \in Requests :
        LET res == update_inline_metadata(file_text, r.dt)
        IN /\ req' = r
           /\ IF res.kind = "ok"
              THEN file_text' = res.script /\ action' = res.action
              ELSE file_text' = file_text /\ action' = res
           /\ UNCHANGED <<codecVars, mergeVars, convVars, auxVars, lateVars>>

StampNext == StampScript

SpecStamp == StampInit /\ [][StampNext]_vars

-----------------------------------------------------------------------------
(* Claims about stamp                                                      *)

\* the text has a script block whose content is a TOML document
Parseable(t) ==
    LET p == parse_inline_script_metadata(t)
    IN p.kind = "ok" /\ IsToml(p.content)

\* tool.uv.exclude-newer as stored in the text, None when it is absent
Stored(t) == TomlParse(parse_inline_script_metadata(t).content).en

\* C1: on a document with a parseable script block a stamp that is no clear
\* returns CreateAction(value) exactly when tool.uv.exclude-newer was absent
\* before the call and UpdateAction(previous, value) otherwise, previous
\* being the string stored before the call, also when the new string is the
\* same; after the call the stored field is the action's value.
C1_StampClassification ==
    [][(~req'.clear /\ Parseable(file_text)) =>
          /\ action' = IF Stored(file_text) = None
                       THEN CreateAction(format_common_iso(req'.dt))
                       ELSE UpdateAction(Stored(file_text), format_common_iso(req'.dt))
          /\ Parseable(file_text')
          /\ Stored(file_text') = action'.value]_vars

\* a stamp returned an UpdateAction whose new string is the stored one
C1_Witness ==
    /\ action.kind = "UpdateAction"
    /\ action.previous = action.value
    /\ ~req.clear

\* a clear on a document with a script block returns DeleteAction with the
\* stored string, or None, and the field is absent afterwards
C2_ClearDeletes ==
    [][(req'.clear /\ Parseable(file_text)) =>
          /\ action' = DeleteAction(Stored(file_text))
          /\ (Parseable(file_text') => Stored(file_text') = None)]_vars

\* the stamp that follows a clear that returned DeleteAction returns
\* CreateAction
C2_ThenCreate ==
    [][(action.kind = "DeleteAction" /\ ~req'.clear) => action'.kind = "CreateAction"]_vars

\* the TOML document stored in the text
StoredMeta(t) == TomlParse(parse_inline_script_metadata(t).content)

\* the lines of TOML the text holds for tables and keys of the tool table
ToolLines(t) ==
    {t[i] : i \in 1..Len(t)} \cap {"[tool]", "[tool.uv]", "[tool.x]", "index-url = 'u'", "exclude-newer"}

\* C18: after a clear on a document with a parseable script block the TOML
\* has no exclude-newer, has a tool.uv table exactly when tool.uv has
\* another key, and has a tool table exactly when tool.uv or another tool
\* table is left; the other key of tool.uv, the other tool table and the
\* top-level keys are as before. When nothing is left the block holds no
\* table line at all.
C18_NoResidualTables ==
    [][(req'.clear /\ Parseable(file_text)) =>
          LET old == StoredMeta(file_text)
          IN IF old.top \/ old.key \/ old.other
             THEN /\ Parseable(file_text')
                  /\ StoredMeta(file_text') =
                        [top |-> old.top, tool |-> old.key \/ old.other,
                         other |-> old.other, uv |-> old.key, key |-> old.key,
                         en |-> None]
                  /\ "[tool]" \notin ToolLines(file_text')
                  /\ ("[tool.uv]" \in ToolLines(file_text')) = old.key
             ELSE ToolLines(file_text') = {}]_vars

\* a clear removed a stored exclude-newer and with it the tool.uv table,
\* and the other tool table and the top-level keys are still there
C18_Witness ==
    /\ req.clear
    /\ action.kind = "DeleteAction"
    /\ action.previous # None
    /\ Parseable(file_text)
    /\ StoredMeta(file_text).other
    /\ StoredMeta(file_text).top
    /\ ~StoredMeta(file_text).uv

\* C2 as stated: a clear on a document with a script block always returns
\* DeleteAction (previous is the stored string, or None), the field is
\* absent afterwards, and a following stamp that is no clear returns
\* CreateAction.
C2_ClearThenCreate == C2_ClearDeletes /\ C2_ThenCreate

-----------------------------------------------------------------------------
(* _run.py: load_script_notebook, and the percent reader of jupytext       *)

\* a cell of a notebook; hidden stands for metadata.jupyter.source_hidden
Cell(type, source, hidden) == [cell_type |-> type, source |-> source, hidden |-> hidden]

\* code_cell(source, hidden=...)
code_cell(source, hidden) == Cell("code", source, hidden)

PercentMarker == <<"#", " ", "%%">>
MarkdownMarker == PercentMarker \o <<" ", "[markdown]">>

\* a line that opens a cell of the percent format
IsPercentMarker(line) == Len(line) >= 3 /\ SubSeq(line, 1, 3) = PercentMarker

IsBlank(line) == \A i \in 1..Len(line) : IsSpace(line[i])

IsComment(line) == Len(line) >= 1 /\ line[1] = "#"

RECURSIVE DropTrailingBlank(_)
DropTrailingBlank(lines) ==
    IF lines # <<>> /\ IsBlank(lines[Len(lines)])
    THEN DropTrailingBlank(SubSeq(lines, 1, Len(lines) - 1))
    ELSE lines

\* the text of a markdown cell is written as comments
Uncomment(line) == IF IsComment(line) THEN StripPrefix(line) ELSE line

\* The cells of the lines of a percent script: a cell runs from its marker
\* (the first cell may have none) to the line before the next marker, its
\* source is what is in between without the blank lines at its end, and a
\* [markdown] cell is uncommented.
RECURSIVE PercentCells(_)
PercentCells(lines) ==
    IF lines = <<>> THEN <<>>
    ELSE LET later == {i \in 2..Len(lines) : IsPercentMarker(lines[i])}
             next  == IF later = {} THEN Len(lines) + 1 ELSE Min(later)
             start == IF IsPercentMarker(lines[1]) THEN 2 ELSE 1
             type  == IF lines[1] = MarkdownMarker THEN "markdown" ELSE "code"
             body  == DropTrailingBlank(SubSeq(lines, start, next - 1))
             src   == IF type = "markdown"
                      THEN [i \in 1..Len(body) |-> Uncomment(body[i])]
                      ELSE body
         IN <<Cell(type, Join(<<NL>>, src), FALSE)>>
                \o PercentCells(SubSeq(lines, next, Len(lines)))

\* jupytext.reads(text) for a text with a "# %%" line and no YAML header
reads(t) == PercentCells(SplitLines(t))

LoadError == [kind |-> "error", msg |-> "Multiple script blocks found"]
Notebook(cells) == [kind |-> "notebook", cells |-> cells]
NoNotebook == [kind |-> "none"]

\* a plausible slip: the metadata cell is put after the other cells
InsertFirst_append(cells, c) == Append(cells, c)

\* notebook["cells"].insert(0, inline_meta_cell)
InsertFirst(cells, c) == <<c>> \o cells

load_script_notebook(script) ==
    LET ex == extract_inline_meta(script)
    IN IF ex.kind = "error" THEN LoadError
       ELSE IF ex.kind = "none" THEN Notebook(reads(Strip(ex.rest)))
       ELSE Notebook(InsertFirst(reads(Strip(ex.rest)), code_cell(Strip(ex.block), TRUE)))

-----------------------------------------------------------------------------
(* _cat.py: cat, and the light writer of jupytext                          *)

LightStart == <<"#", " ", "+">>
LightEnd == <<"#", " ", "-">>

\* cell.source.splitlines()
SourceLines(c) == SplitLines(c.source)

\* A code cell is written with "# +" and "# -" around it when the reader
\* would not read it back as one code cell: it is all comments (or empty),
\* or a blank line would end it early.
ExplicitStartMarker(ls) ==
    \/ \A i \in 1..Len(ls) : IsComment(ls[i])
    \/ \E i \in 1..Len(ls) : IsBlank(ls[i])

\* the lines of one cell in the light format
CellToText(c) ==
    LET ls == SourceLines(c)
    IN IF c.cell_type = "markdown" THEN [i \in 1..Len(ls) |-> CommentLine(ls[i])]
       ELSE IF ExplicitStartMarker(ls) THEN <<LightStart>> \o ls \o <<LightEnd>>
       ELSE ls

\* the "# -" of a cell is left out when the next cell opens with "# +"
RemoveEocMarker(ls, next) ==
    IF ls # <<>> /\ ls[Len(ls)] = LightEnd /\ next # <<>> /\ next[1] = LightStart
    THEN SubSeq(ls, 1, Len(ls) - 1)
    ELSE ls

\* The lines of the cells, one blank line between two cells.
RECURSIVE LightLines(_)
LightLines(cells) ==
    IF cells = <<>> THEN <<>>
    ELSE IF Len(cells) = 1 THEN CellToText(cells[1])
    ELSE RemoveEocMarker(CellToText(cells[1]), CellToText(cells[2]))
             \o <<<<>>>> \o LightLines(Tail(cells))

\* jupytext.writes(notebook, fmt="py") for a notebook read from an .ipynb
\* file that names no text format and filters all notebook metadata: the
\* light format, without a YAML header
writes(cells) == Concat([i \in 1..Len(LightLines(cells)) |-> LightLines(cells)[i] \o <<NL>>])

FrontmatterMark == <<"#", " ", "---">>

strip_python_frontmatter_comment(content) ==
    LET lines == SplitLinesKeep(content)
        ends  == {i \in 2..Len(lines) : Strip(lines[i]) = FrontmatterMark}
    IN IF lines = <<>> \/ Strip(lines[1]) # FrontmatterMark THEN content
       ELSE IF ends = {} THEN content
       ELSE Concat(SubSeq(lines, Min(ends) + 1, Len(lines)))

\* {"markdown": "md", "py:percent": "py", "md": "md", "py": "py"}[fmt]
CatFormat(fmt) == IF fmt \in {"markdown", "md"} THEN "md" ELSE "py"

\* the formats of cat that give a script
ScriptFormats == {"py:percent", "py"}

\* cat for a format that gives a script
cat(cells, fmt) == Strip(strip_python_frontmatter_comment(writes(cells)))

-----------------------------------------------------------------------------
(* The converter as a state machine: a percent script is loaded as a       *)
(* notebook, and the notebook is printed as a script again.                *)

MaxScriptSegs == 4

\* The segments a script is assembled from (joined by newlines).
ScriptSegKinds == {"script", "marker", "mdmarker", "x", "y", "rule", "blank"}

ScriptSegText(k) ==
    CASE k = "script"   -> SegText("script")
      [] k = "marker"   -> PercentMarker
      [] k = "mdmarker" -> MarkdownMarker
      [] k = "x"        -> <<"x">>
      [] k = "y"        -> <<"y">>
      [] k = "rule"     -> FrontmatterMark
      [] k = "blank"    -> <<>>

AssembleScript(ks) == Join(<<NL>>, [i \in 1..Len(ks) |-> ScriptSegText(ks[i])])

\* jupytext takes a leading "# ---" ... "# ---" run of comment lines for a
\* YAML header
HasYamlHeader(lines) ==
    /\ lines # <<>>
    /\ lines[1] = FrontmatterMark
    /\ \E j \in 2..Len(lines) :
          /\ lines[j] = FrontmatterMark
          /\ \A m \in 2..j : IsComment(lines[m])

\* what jupytext is handed: the script without its block, stripped
Remainder(script) ==
    LET ex == extract_inline_meta(script)
    IN IF ex.kind = "error" THEN script ELSE Strip(ex.rest)

\* the scripts of the model: percent scripts without a YAML header
PercentScript(script) ==
    LET lines == SplitLines(Remainder(script))
    IN /\ \E i \in 1..Len(lines) : IsPercentMarker(lines[i])
       /\ ~HasYamlHeader(lines)

ConvInit ==
    /\ CodecIdle
    /\ MergeIdle
    /\ StampIdle
    /\ AuxIdle
    /\ \E ks \in SeqsUpTo(ScriptSegKinds, MaxScriptSegs) :
          /\ PercentScript(AssembleScript(ks))
          /\ py_text = AssembleScript(ks)
    /\ notebook = NoNotebook
    /\ out_text = <<>>
    /\ vpc = "script"

\* load_script_notebook(fp), and the notebook written to an .ipynb file
LoadScriptNotebook ==
    /\ vpc = "script"
    /\ notebook' = load_script_notebook(py_text)
    /\ vpc' = IF notebook'.kind = "error" THEN "error" ELSE "notebook"
    /\ UNCHANGED <<py_text, out_text, codecVars, mergeVars, stampVars, auxVars, lateVars>>

\* cat(path, fmt) on the .ipynb file
Cat ==
    /\ vpc = "notebook"
    /\ \E fmt \in ScriptFormats :
          /\ CatFormat(fmt) = "py"
          /\ out_text' = cat(notebook.cells, fmt)
    /\ vpc' = "printed"
    /\ UNCHANGED <<py_text, notebook, codecVars, mergeVars, stampVars, auxVars, lateVars>>

ConvNext == LoadScriptNotebook \/ Cat

SpecConv == ConvInit /\ [][ConvNext]_vars

-----------------------------------------------------------------------------
(* Claims about the converter                                              *)

\* whether sub occurs in t
Contains(t, sub) ==
    \E i \in 1..(Len(t) - Len(sub) + 1) : SubSeq(t, i, i + Len(sub) - 1) = sub

\* the script has one script block, and it was loaded
LoadedWithBlock ==
    /\ vpc \in {"notebook", "printed"}
    /\ Len(ScriptMatches(py_text)) = 1

TheBlock == GroupAll(py_text, ScriptMatches(py_text)[1])

\* C9: loading a script with a script block gives a notebook whose cell 0
\* is a hidden code cell with the block as its source, followed by the
\* cells of the script without the block, in their order; no other cell
\* holds the block or is hidden.
C9_MetadataCellFirst ==
    LoadedWithBlock =>
        LET cells == notebook.cells
        IN /\ notebook.kind = "notebook"
           /\ Len(cells) >= 1
           /\ cells[1] = [cell_type |-> "code", source |-> TheBlock, hidden |-> TRUE]
           /\ Tail(cells) = PercentCells(SplitLines(Strip(Replace(py_text, TheBlock, <<>>))))
           /\ \A j \in 2..Len(cells) :
                 /\ ~Contains(cells[j].source, TheBlock)
                 /\ ScriptMatches(cells[j].source) = <<>>
                 /\ ~cells[j].hidden

\* a script whose block follows a cell was loaded: the block is cell 0 and
\* at least two cells follow it
C9_Witness ==
    /\ LoadedWithBlock
    /\ ScriptMatches(py_text)[1].first > 1
    /\ Len(notebook.cells) >= 3
    /\ notebook.cells[1].hidden
    /\ notebook.cells[2].source # <<>>

LightMarkers == {LightStart, LightEnd}

\* a line that is neither blank, nor an empty comment, nor a cell marker
HasContent(line) ==
    /\ ~IsBlank(line)
    /\ line # <<"#">>
    /\ ~IsPercentMarker(line)
    /\ line \notin LightMarkers

\* the content of a script: its lines that are no cell markers, in order,
\* without blank lines
ContentLines(t) == SelectSeq(SplitLines(t), HasContent)

\* every line of a [markdown] cell is a comment or blank
MarkdownCommented(lines) ==
    \A i \in 1..Len(lines) :
        LET before == {j \in 1..i : IsPercentMarker(lines[j])}
        IN (before # {} /\ lines[Max(before)] = MarkdownMarker /\ ~IsBlank(lines[i]))
               => IsComment(lines[i])

WellFormed(script) == MarkdownCommented(SplitLines(Remainder(script)))

\* the content the printed script has to show: the block, then the
\* content of the cells
ExpectedContent(script) ==
    LET ex == extract_inline_meta(script)
    IN IF ex.kind = "ok"
       THEN ContentLines(ex.block) \o ContentLines(Strip(ex.rest))
       ELSE ContentLines(script)

\* C10: a well-formed script that is loaded as a notebook and printed as a
\* script again shows the content of its block and of its cells, in order
\* and unchanged, whatever happens to blank lines.
C10_RoundTrip ==
    (vpc = "printed" /\ WellFormed(py_text)) =>
        ContentLines(out_text) = ExpectedContent(py_text)

\* cat found no "# ---" ... "# ---" run at the head of what jupytext wrote
NoFrontmatter ==
    strip_python_frontmatter_comment(writes(notebook.cells)) = writes(notebook.cells)

\* the round trip of C10 holds whenever cat strips no frontmatter
RoundTripWithoutFrontmatter ==
    (vpc = "printed" /\ WellFormed(py_text) /\ NoFrontmatter) =>
        ContentLines(out_text) = ExpectedContent(py_text)

-----------------------------------------------------------------------------
(* _run.py: to_notebook on an .ipynb file                                  *)

MaxNbCells == 3

\* The cells an .ipynb file is made of.
NbCellKinds == {"code_meta", "code_meta2", "code_plain", "code_other", "md_meta", "md_plain"}

NbCell(k) ==
    CASE k = "code_meta"  -> Cell("code", Join(<<NL>>, <<SegText("script"), <<"x">>>>), FALSE)
      [] k = "code_meta2" -> Cell("code", SegText("script2"), TRUE)
      [] k = "code_plain" -> Cell("code", <<"x">>, FALSE)
      [] k = "code_other" -> Cell("code", SegText("other"), FALSE)
      [] k = "md_meta"    -> Cell("markdown", SegText("script"), FALSE)
      [] k = "md_plain"   -> Cell("markdown", <<"y">>, FALSE)

Notebooks == {[i \in 1..Len(ks) |-> NbCell(ks[i])] : ks \in SeqsUpTo(NbCellKinds, MaxNbCells)}

IsCode(c) == c.cell_type = "code"

\* filter(lambda c: c["cell_type"] == "code", nb.get("cells", []))
CodeCells(cells) == SelectSeq(cells, IsCode)

\* meta of to_notebook: next(<generator over the code cells>, None) takes
\* what the generator yields first, the parse of the first code cell
to_notebook(cells) ==
    IF CodeCells(cells) = <<>> THEN ParseNone
    ELSE parse_inline_script_metadata(CodeCells(cells)[1].source)

LocateInit ==
    /\ MainIdle
    /\ AuxIdleBut("locate")
    /\ \E cells \in Notebooks : locate = [pc |-> "read", cells |-> cells, meta |-> ParseNone]

ToNotebook ==
    /\ locate.pc = "read"
    /\ locate' = [locate EXCEPT !.pc = "located", !.meta = to_notebook(locate.cells)]
    /\ UNCHANGED <<codecVars, mergeVars, stampVars, convVars, lateVars, stampfile, syncer, editor, clock, cli>>

LocateNext == ToNotebook

SpecLocate == LocateInit /\ [][LocateNext]_vars

\* the code cells whose source holds a script block
HasBlock(c) == ScriptMatches(c.source) # <<>>
BlockCells(cells) == {i \in 1..Len(cells) : IsCode(cells[i]) /\ HasBlock(cells[i])}

\* C11: to_notebook returns the content of the first code cell whose source
\* holds a script block, also when code cells without a block come before
\* it, and None only if no code cell holds a block.
C11_FirstBlockCellLocated ==
    locate.pc = "located" =>
        IF BlockCells(locate.cells) = {} THEN locate.meta = ParseNone
        ELSE locate.meta =
                 parse_inline_script_metadata(locate.cells[Min(BlockCells(locate.cells))].source)

-----------------------------------------------------------------------------
(* _stamp.py: stamp(path, ...) on a script file or on an .ipynb file       *)

\* includes_inline_metadata(source): a script block is present
includes_inline_metadata(source) == ScriptMatches(source) # <<>>

\* a cell of an .ipynb file with the state a notebook keeps for it
FileCell(type, source, i) ==
    [cell_type |-> type, source |-> source, id |-> i, outputs |-> i, execution_count |-> i]

BlockOf(m) == EncodeContent(Strip(Dumps(m)))

\* the documents of the blocks in the cells of the notebooks: one with
\* top-level keys only, one with nothing but tool.uv.exclude-newer
PlainMeta == [top |-> TRUE, tool |-> FALSE, other |-> FALSE, uv |-> FALSE, key |-> FALSE, en |-> None]
StampedMeta == [top |-> FALSE, tool |-> TRUE, other |-> FALSE, uv |-> TRUE, key |-> FALSE, en |-> "t1"]

StampCellKinds == {"code_meta", "code_stamped", "code_plain", "md_meta"}

StampCell(k, i) ==
    CASE k = "code_meta"    -> FileCell("code", <<"x", NL>> \o BlockOf(PlainMeta) \o <<NL, "y">>, i)
      [] k = "code_stamped" -> FileCell("code", BlockOf(StampedMeta), i)
      [] k = "code_plain"   -> FileCell("code", <<"x">>, i)
      [] k = "md_meta"      -> FileCell("markdown", BlockOf(PlainMeta), i)

StampNotebooks ==
    {[i \in 1..Len(ks) |-> StampCell(ks[i], i)] : ks \in SeqsUpTo(StampCellKinds, MaxNbCells)}

\* a second copy of the block that starts in the middle of a line: no
\* block for REGEX, whose start line is anchored at the start of a line
Quoted(block) == <<NL, "s", " ", "=", " ">> \o block

\* the script files: a block with text around it, and files without a block
StampScripts ==
    {b \o BlockOf(m) \o a : m \in Metas, b \in Before, a \in After}
        \cup {BlockOf(m) \o Quoted(BlockOf(m)) : m \in Metas}
        \cup {<<>>, <<"x">>, SegText("bare"), SegText("other"), SegText("open")}

NoAction == [kind |-> "none"]

\* the first code cell whose source includes a block, 0 if there is none
FirstMetaCell(cells) ==
    LET hits == {i \in 1..Len(cells) :
                    IsCode(cells[i]) /\ includes_inline_metadata(cells[i].source)}
    IN IF hits = {} THEN 0 ELSE Min(hits)

\* a plausible slip: the file is written before the outcome is looked at
WriteReached_always(res) == TRUE

\* the write is reached when nothing was raised before it
WriteReached(res) == res.kind = "ok"

\* lines 164-169: what is on disk afterwards, what is returned or raised,
\* and whether write_ipynb was reached, for the outcome res of the loop
NotebookOutcome(cells, i, res) ==
    IF res.kind = "ok"
    THEN [cells |-> [cells EXCEPT ![i].source = Concat(SplitLinesKeep(res.script))],
          action |-> res.action, wrote |-> WriteReached(res)]
    ELSE [cells |-> cells, action |-> res, wrote |-> WriteReached(res)]

\* lines 157-162: the loop over the code cells, i being the first code cell
\* with a block or 0
StampAt(cells, i, dt) ==
    NotebookOutcome(cells, i,
                    IF i = 0 THEN ValueError("No PEP 723 metadata block found.")
                    ELSE update_inline_metadata(cells[i].source, dt))

\* stamp() for a path with the suffix .ipynb
stamp_notebook(cells, dt) == StampAt(cells, FirstMetaCell(cells), dt)

\* lines 171-173, for the outcome res of update_inline_metadata
ScriptOutcome(script, res) ==
    IF res.kind = "ok"
    THEN [text |-> res.script, action |-> res.action, wrote |-> WriteReached(res)]
    ELSE [text |-> script, action |-> res, wrote |-> WriteReached(res)]

\* stamp() for any other path
stamp_script(script, dt) == ScriptOutcome(script, update_inline_metadata(script, dt))

\* the file and the result after a call with the outcome out
Stamped_file(file, dt, out) ==
    [suffix |-> file.suffix,
     text |-> IF file.suffix = ".py" THEN out.text ELSE file.text,
     cells |-> IF file.suffix = ".py" THEN file.cells ELSE out.cells,
     dt |-> dt, action |-> out.action, wrote |-> out.wrote]

StampFileInit ==
    /\ MainIdle
    /\ AuxIdleBut("stampfile")
    /\ \/ \E t \in StampScripts :
             stampfile = [suffix |-> ".py", text |-> t, cells |-> <<>>,
                          dt |-> None, action |-> NoAction, wrote |-> FALSE]
       \/ \E cells \in StampNotebooks :
             stampfile = [suffix |-> ".ipynb", text |-> <<>>, cells |-> cells,
                          dt |-> None, action |-> NoAction, wrote |-> FALSE]

StampFileFrame == UNCHANGED <<codecVars, mergeVars, stampVars, convVars, lateVars, locate, syncer, editor, clock, cli>>

StampPy ==
    /\ stampfile.suffix = ".py"
    /\ \E r \in Requests :
          stampfile' = Stamped_file(stampfile, r.dt, stamp_script(stampfile.text, r.dt))
    /\ StampFileFrame

StampIpynb ==
    /\ stampfile.suffix = ".ipynb"
    /\ \E r \in Requests :
          stampfile' = Stamped_file(stampfile, r.dt, stamp_notebook(stampfile.cells, r.dt))
    /\ StampFileFrame

StampFileNext == StampPy \/ StampIpynb

SpecStampFile == StampFileInit /\ [][StampFileNext]_vars

-----------------------------------------------------------------------------
(* Claims about stamp(path, ...)                                           *)

\* the number of characters of t before the span of its script block
SpanStart(t) ==
    LET first == ScriptMatches(t)[1].first
        lines == SplitNL(t)
    IN IF first = 1 THEN 0 ELSE Len(Join(<<NL>>, SubSeq(lines, 1, first - 1))) + 1

TextBefore(t) == SubSeq(t, 1, SpanStart(t))

TextAfter(t) ==
    SubSeq(t, SpanStart(t) + Len(GroupAll(t, ScriptMatches(t)[1])) + 1, Len(t))

\* t2 is t with another text in the place of the span of the block
OnlyBlockChanged(t, t2) ==
    LET pre  == TextBefore(t)
        post == TextAfter(t)
    IN /\ Len(t2) >= Len(pre) + Len(post)
       /\ SubSeq(t2, 1, Len(pre)) = pre
       /\ SubSeq(t2, Len(t2) - Len(post) + 1, Len(t2)) = post

\* cells2 is cells with another text in the place of the block of the
\* first code cell that holds one
OnlyMetaCellChanged(cells, cells2) ==
    LET i == FirstMetaCell(cells)
    IN /\ Len(cells2) = Len(cells)
       /\ \A j \in 1..Len(cells) : j # i => cells2[j] = cells[j]
       /\ cells2[i] = [cells[i] EXCEPT !.source = cells2[i].source]
       /\ OnlyBlockChanged(cells[i].source, cells2[i].source)

FrameKept ==
    IF stampfile.suffix = ".py"
    THEN OnlyBlockChanged(stampfile.text, stampfile'.text)
    ELSE OnlyMetaCellChanged(stampfile.cells, stampfile'.cells)

\* C12: a successful stamp changes only the metadata block: the text
\* before and after the span of the block of a script is the same
\* afterwards, and in a notebook only the source of the first code cell
\* with a block changes, within the span of its block.
C12_StampFrame == [][stampfile'.wrote => FrameKept]_vars

\* the block of the document occurs once in the text that holds it
BlockOnce(t) ==
    LET block == GroupAll(t, ScriptMatches(t)[1])
    IN Len(Replace(t, block, <<>>)) = Len(t) - Len(block)

DocText == IF stampfile.suffix = ".py" THEN stampfile.text
           ELSE stampfile.cells[FirstMetaCell(stampfile.cells)].source

\* the frame of C12 is kept whenever the text of the block occurs once
FrameKeptUnlessRepeated == [][(stampfile'.wrote /\ BlockOnce(DocText)) => FrameKept]_vars

NoBlockFound ==
    IF stampfile.suffix = ".py" THEN ScriptMatches(stampfile.text) = <<>>
    ELSE FirstMetaCell(stampfile.cells) = 0

NoBlockMessages ==
    {"No PEP 723 metadata block found.",
     "No TOML metadata found in the PEP 723 metadata block."}

\* C13: stamping a document without a script block raises ValueError with
\* one of the two messages, and a stamp that raises ValueError does not
\* reach the write and leaves the document as it was.
C13_NoBlockNoWrite ==
    [][/\ NoBlockFound =>
              /\ stampfile'.action.kind = "ValueError"
              /\ stampfile'.action.msg \in NoBlockMessages
       /\ stampfile'.action.kind = "ValueError" =>
              /\ ~stampfile'.wrote
              /\ stampfile'.text = stampfile.text
              /\ stampfile'.cells = stampfile.cells]_vars

\* a stamp of a notebook was refused: its only block is in a markdown cell
C13_Witness ==
    /\ stampfile.suffix = ".ipynb"
    /\ stampfile.action.kind = "ValueError"
    /\ ~stampfile.wrote
    /\ \E j \in 1..Len(stampfile.cells) :
          /\ stampfile.cells[j].cell_type = "markdown"
          /\ includes_inline_metadata(stampfile.cells[j].source)

-----------------------------------------------------------------------------
(* _edit.py: open_editor and edit, step by step                            *)

\* the editor commands: words, as the user types them
EditorNames == {<<"vim">>, <<"code">>, <<"VS", "Code">>}

\* str.lower() on the words of an editor command
Lower(w) == CASE w = "VS" -> "vs" [] w = "Code" -> "code" [] OTHER -> w

\* any(code in editor.lower() for code in ["code", "vscode"])
WantsWait(name) == \E i \in 1..Len(name) : Lower(name[i]) = "code"

\* cmd = [editor, "--wait", tpath] or [editor, tpath]
EditorCmd(name) ==
    IF WantsWait(name) THEN <<name, "--wait", "tpath">> ELSE <<name, "tpath">>

\* what cat gives for the notebook that was read
EditContents == {<<>>, <<"a">>, <<"a", NL, "b">>}

\* what the editor leaves in the temporary file
EditedTexts == {<<>>, <<"c">>, <<" ", "c", NL>>}

\* the exit statuses of the editor
ExitCodes == {0, 1, 2}

\* a plausible slip: only the exit status 1 counts as an abort
Aborted_only_one(returncode) == returncode = 1

\* result.returncode != 0
Aborted(returncode) == returncode # 0

\* a plausible slip: the file is unlinked after the read, with no finally
Unlinked_on_return(raised) == raised = "none"

\* finally: tpath.unlink(), on every way out of the try block
Unlinked(raised) == TRUE

\* what a notebook holds besides its cells: the document metadata (its
\* keys) and the format version
Headers == [metadata : {{}, {"kernelspec"}, {"kernelspec", "uv.lock"}},
            nbformat : {<<4, 2>>, <<4, 5>>}]

NoHeader == [metadata |-> {}, nbformat |-> <<0, 0>>]

\* the notebook jupytext.reads(text, fmt="md") makes
MarkdownHeader == [metadata |-> {"jupytext"}, nbformat |-> <<4, 5>>]

\* a plausible slip: the notebook parsed from the edited text is written
WrittenHeader_new(prev_header, new_header) == new_header

\* lines 68-70: prev_notebook gets the new cells and is written
WrittenHeader(prev_header, new_header) == prev_header

EditorInit ==
    /\ MainIdle
    /\ AuxIdleBut("editor")
    /\ \E c \in EditContents, n \in EditorNames, h \in Headers :
          editor = [pc |-> "read", name |-> n, contents |-> c, disk |-> c, disk0 |-> c,
                    disk_header |-> h, prev_header |-> h, new_header |-> NoHeader,
                    tmp |-> "none", tmp_text |-> <<>>, cmd |-> <<>>,
                    launched |-> FALSE, returncode |-> -1, raised |-> "none",
                    text |-> <<>>, parsed |-> FALSE, merged |-> FALSE,
                    replaced |-> FALSE, written |-> FALSE]

EditorFrame == UNCHANGED <<codecVars, mergeVars, stampVars, convVars, lateVars, locate, stampfile, syncer, clock, cli>>

\* the with block of open_editor: the temporary file is created, the
\* contents are written if there are any, and the file is closed
CreateTemp ==
    /\ editor.pc = "read"
    /\ editor' = [editor EXCEPT !.pc = "staged", !.tmp = "exists",
                                !.tmp_text = editor.contents]
    /\ EditorFrame

\* subprocess.run(cmd, check=False): the launch raises, or the editor runs,
\* leaves a text in the file, or removes the file, and exits
RunEditor ==
    /\ editor.pc = "staged"
    /\ \/ editor' = [editor EXCEPT !.pc = "ran", !.cmd = EditorCmd(editor.name),
                                   !.raised = "OSError"]
       \/ \E code \in ExitCodes, t \in EditedTexts \cup {editor.tmp_text} :
             editor' = [editor EXCEPT !.pc = "ran", !.cmd = EditorCmd(editor.name),
                                      !.launched = TRUE, !.returncode = code,
                                      !.tmp_text = t]
       \/ \E code \in ExitCodes :
             editor' = [editor EXCEPT !.pc = "ran", !.cmd = EditorCmd(editor.name),
                                      !.launched = TRUE, !.returncode = code,
                                      !.tmp = "removed"]
    /\ EditorFrame

\* the rest of the try block and its finally: the exit status is looked
\* at, the file is read back, and the file is unlinked
LeaveEditor ==
    /\ editor.pc = "ran"
    /\ LET raised == IF editor.raised # "none" THEN editor.raised
                     ELSE IF Aborted(editor.returncode) THEN "EditorAbortedError"
                     ELSE IF editor.tmp # "exists" THEN "FileNotFoundError"
                     ELSE "none"
       IN editor' = [editor EXCEPT
                        !.pc = IF raised = "none" THEN "returned" ELSE "raised",
                        !.raised = raised,
                        !.text = IF raised = "none" THEN editor.tmp_text ELSE <<>>,
                        !.tmp = IF editor.tmp = "exists" /\ Unlinked(raised)
                                THEN "removed" ELSE editor.tmp]
    /\ EditorFrame

\* new_notebook = jupytext.reads(text.strip(), fmt="md")
ParseEdited ==
    /\ editor.pc = "returned"
    /\ editor' = [editor EXCEPT !.pc = "parsed", !.parsed = TRUE, !.text = Strip(editor.text),
                                !.new_header = MarkdownHeader]
    /\ EditorFrame

\* apply_diff(prev_notebook["cells"], new_notebook["cells"])
MergeEdited ==
    /\ editor.pc = "parsed"
    /\ editor' = [editor EXCEPT !.pc = "merged", !.merged = TRUE]
    /\ EditorFrame

\* prev_notebook["cells"] = new_notebook["cells"], and the file is written
WriteEdited ==
    /\ editor.pc = "merged"
    /\ editor' = [editor EXCEPT !.pc = "written", !.replaced = TRUE, !.written = TRUE,
                                !.disk = editor.text,
                                !.disk_header = WrittenHeader(editor.prev_header,
                                                              editor.new_header)]
    /\ EditorFrame

EditorNext ==
    CreateTemp \/ RunEditor \/ LeaveEditor \/ ParseEdited \/ MergeEdited \/ WriteEdited

SpecEditor == EditorInit /\ [][EditorNext]_vars

\* open_editor is over, by a return or by an exception
EditorLeft == editor.pc \in {"returned", "raised", "parsed", "merged", "written"}

\* C14: when the editor exits with a non-zero status, edit raises
\* EditorAbortedError before anything is parsed or merged, the notebook
\* file is not written and holds what it held, and the cells are not
\* replaced.
C14_AbortLeavesNotebook ==
    (EditorLeft /\ editor.launched /\ editor.returncode # 0) =>
        /\ editor.pc = "raised"
        /\ editor.raised = "EditorAbortedError"
        /\ ~editor.parsed
        /\ ~editor.merged
        /\ ~editor.replaced
        /\ ~editor.written
        /\ editor.disk = editor.disk0

\* an editor that changed the file and exited with the status 2 was left
C14_Witness ==
    /\ editor.pc = "raised"
    /\ editor.returncode = 2
    /\ editor.tmp_text # editor.contents
    /\ editor.raised = "EditorAbortedError"

LaunchTried == editor.pc \notin {"read", "staged"}

\* C16: once the editor was launched, or its launch raised, the temporary
\* file is gone when open_editor is left, whether the editor exited with
\* 0, exited with another status, or could not be launched.
C16_TempFileRemoved == (LaunchTried /\ EditorLeft) => editor.tmp = "removed"

\* the launch of the editor raised and the temporary file was removed
C16_Witness ==
    /\ editor.pc = "raised"
    /\ ~editor.launched
    /\ editor.raised = "OSError"
    /\ editor.tmp = "removed"

-----------------------------------------------------------------------------
(* _venv.py: sync on an .ipynb file, step by step                          *)

SyncCellKinds == {"code_meta", "code_plain", "md_meta", "md_plain"}

SyncNotebooks ==
    {[i \in 1..Len(ks) |-> NbCell(ks[i])] : ks \in SeqsUpTo(SyncCellKinds, MaxNbCells)}

\* notebook.get("metadata", {}).get("uv.lock"): absent, empty, or a lockfile
LockContents == {None, "", "lock-1"}

\* find(predicate, cells): the index of the first cell that satisfies the
\* predicate of sync, 0 for None
find(cells) ==
    LET hits == {i \in 1..Len(cells) :
                    cells[i].cell_type = "code"
                        /\ includes_inline_metadata(cells[i].source)}
    IN IF hits = {} THEN 0 ELSE Min(hits)

\* a plausible slip: the new cell is put after the other cells
LocateOrCreate_append(cells) ==
    IF find(cells) = 0 THEN Append(cells, code_cell(<<>>, TRUE)) ELSE cells

\* lines 49-59: the cells after the metadata cell was located or created
LocateOrCreate(cells) ==
    IF find(cells) = 0 THEN <<code_cell(<<>>, TRUE)>> \o cells ELSE cells

\* the index of the cell sync works on
SyncTarget(cells) == IF find(cells) = 0 THEN 1 ELSE find(cells)

SyncInit ==
    /\ MainIdle
    /\ AuxIdleBut("syncer")
    /\ \E cells \in SyncNotebooks, l \in LockContents, fr \in BOOLEAN :
          syncer = [pc |-> "start", frozen |-> fr, disk |-> cells, disk_lock |-> l,
                    read |-> <<>>, cells |-> <<>>, lockfile_contents |-> None, target |-> 0,
                    tmp |-> "none", tmp_text |-> <<>>, lock |-> "none", lock_text |-> None,
                    uv |-> "none", raised |-> "none", wrote |-> FALSE]

SyncFrame == UNCHANGED <<codecVars, mergeVars, stampVars, convVars, lateVars, locate, stampfile, editor, clock, cli>>

\* lines 45-59: the notebook is read and the metadata cell located or created
SyncRead ==
    /\ syncer.pc = "start"
    /\ syncer' = [syncer EXCEPT !.pc = "located",
                                !.read = syncer.disk,
                                !.cells = LocateOrCreate(syncer.disk),
                                !.target = SyncTarget(syncer.disk),
                                !.lockfile_contents = syncer.disk_lock]
    /\ SyncFrame

\* lines 61-74: the temporary script is created and written, and the
\* lockfile next to it is written if the notebook holds one
SyncStage ==
    /\ syncer.pc = "located"
    /\ syncer' = [syncer EXCEPT
                     !.pc = "staged",
                     !.tmp = "exists",
                     !.tmp_text = Strip(syncer.cells[syncer.target].source),
                     !.lock = IF syncer.lockfile_contents \notin {None, ""}
                              THEN "exists" ELSE "none",
                     !.lock_text = IF syncer.lockfile_contents \notin {None, ""}
                                   THEN syncer.lockfile_contents ELSE None]
    /\ SyncFrame

\* lines 76-86: uv sync --script runs; it succeeds or fails, and it may
\* write the lockfile next to the script
SyncRunUv ==
    /\ syncer.pc = "staged"
    /\ \E ok \in BOOLEAN, locks \in BOOLEAN :
          syncer' = [syncer EXCEPT
                        !.pc = "synced",
                        !.uv = IF ok THEN "ok" ELSE "failed",
                        !.lock = IF locks THEN "exists" ELSE syncer.lock,
                        !.lock_text = IF locks THEN "lock-2" ELSE syncer.lock_text]
    /\ SyncFrame

\* lines 88-91 and the end of the with block: after a success without
\* frozen the lockfile is stored in the notebook and unlinked; the
\* temporary script is deleted when the with block is left
SyncLeave ==
    /\ syncer.pc = "synced"
    /\ LET store == syncer.uv = "ok" /\ ~syncer.frozen /\ syncer.lock = "exists"
       IN syncer' = [syncer EXCEPT
                        !.pc = IF syncer.uv = "ok" THEN "returned" ELSE "raised",
                        !.raised = IF syncer.uv = "ok" THEN "none" ELSE "CalledProcessError",
                        !.disk = IF store THEN syncer.cells ELSE syncer.disk,
                        !.disk_lock = IF store THEN syncer.lock_text ELSE syncer.disk_lock,
                        !.wrote = store,
                        !.lock = IF store THEN "removed" ELSE syncer.lock,
                        !.tmp = "removed"]
    /\ SyncFrame

SyncNext == SyncRead \/ SyncStage \/ SyncRunUv \/ SyncLeave

SpecSync == SyncInit /\ [][SyncNext]_vars

SyncLeft == syncer.pc \in {"returned", "raised"}

\* C15: when sync returns or raises, neither the temporary script nor the
\* lockfile next to it exists any more.
C15_StagedFilesRemoved ==
    SyncLeft => (syncer.tmp # "exists" /\ syncer.lock # "exists")

\* the temporary script is removed on every way out; the lockfile is
\* removed after a success without frozen
StagedFilesRemovedUnlessFrozenOrFailed ==
    SyncLeft =>
        /\ syncer.tmp # "exists"
        /\ (syncer.uv = "ok" /\ ~syncer.frozen) => syncer.lock # "exists"

SyncLocated == syncer.pc # "start"

\* C17: if a code cell of the notebook holds a script block, the cells in
\* memory are the cells that were read and the cell sync works on is the
\* first such cell; otherwise a hidden, empty code cell is at index 0, the
\* cells that were read follow it in their order, and sync works on it.
C17_LocateOrCreate ==
    SyncLocated =>
        IF BlockCells(syncer.read) # {}
        THEN /\ syncer.cells = syncer.read
             /\ syncer.target = Min(BlockCells(syncer.read))
        ELSE /\ Len(syncer.cells) = Len(syncer.read) + 1
             /\ syncer.cells[1] = [cell_type |-> "code", source |-> <<>>, hidden |-> TRUE]
             /\ Tail(syncer.cells) = syncer.read
             /\ syncer.target = 1

\* a notebook whose only block is in a markdown cell got a new cell in
\* front of its two cells
C17_Witness ==
    /\ SyncLocated
    /\ Len(syncer.read) = 2
    /\ Len(syncer.cells) = 3
    /\ syncer.cells[1].hidden
    /\ \E j \in 1..2 : syncer.read[j].cell_type = "markdown" /\ HasBlock(syncer.read[j])

-----------------------------------------------------------------------------
(* _stamp.py: parse_offset_datetime                                        *)

DigitChars == <<"0", "1", "2", "3", "4", "5", "6", "7", "8", "9">>

IsDigit(c) == \E i \in 1..Len(DigitChars) : DigitChars[i] = c

DigitVal(c) == (CHOOSE i \in 1..Len(DigitChars) : DigitChars[i] = c) - 1

\* the decimal number a sequence of digits stands for
RECURSIVE Number(_)
Number(ds) ==
    IF ds = <<>> THEN 0
    ELSE 10 * Number(SubSeq(ds, 1, Len(ds) - 1)) + DigitVal(ds[Len(ds)])

\* the digits of n, zero-padded to the given width
RECURSIVE Digits(_, _)
Digits(n, width) ==
    IF width = 0 THEN <<>>
    ELSE Digits(n \div 10, width - 1) \o <<DigitChars[(n % 10) + 1]>>

\* a plausible slip: every fourth year is a leap year
IsLeap_julian(y) == y % 4 = 0

\* the leap years of the calendar of whenever.Date
IsLeap(y) == y % 4 = 0 /\ (y % 100 # 0 \/ y % 400 = 0)

DaysIn(y, m) ==
    IF m = 2 THEN (IF IsLeap(y) THEN 29 ELSE 28)
    ELSE IF m \in {4, 6, 9, 11} THEN 30 ELSE 31

Date(y, m, d) == [year |-> y, month |-> m, day |-> d]

NoDate == [year |-> 0, month |-> 0, day |-> 0]

\* Date.parse_common_iso(s): YYYY-MM-DD naming a day of the calendar, or
\* NoDate for the ValueError
DateParse(s) ==
    IF /\ Len(s) = 10
       /\ s[5] = "-"
       /\ s[8] = "-"
       /\ \A i \in {1, 2, 3, 4, 6, 7, 9, 10} : IsDigit(s[i])
    THEN LET y == Number(SubSeq(s, 1, 4))
             m == Number(SubSeq(s, 6, 7))
             d == Number(SubSeq(s, 9, 10))
         IN IF y >= 1 /\ m \in 1..12 /\ d >= 1 /\ d <= DaysIn(y, m)
            THEN Date(y, m, d) ELSE NoDate
    ELSE NoDate

\* date.add(days=1)
AddDay(date) ==
    IF date.day < DaysIn(date.year, date.month)
    THEN Date(date.year, date.month, date.day + 1)
    ELSE IF date.month < 12 THEN Date(date.year, date.month + 1, 1)
    ELSE Date(date.year + 1, 1, 1)

\* the time of day and the offsets a timestamp of the model is written with
ClockTime == <<"T", "1", "5", ":", "0", "4", ":", "0", "5">>
OffsetTexts == {<<"Z">>, <<"-", "0", "5", ":", "0", "0">>}
OffsetMinutes(o) == IF o = <<"Z">> THEN 0 ELSE 0 - 300

OffsetDateTime(date, h, mi, sec, off) ==
    [kind |-> "OffsetDateTime", year |-> date.year, month |-> date.month, day |-> date.day,
     hour |-> h, minute |-> mi, second |-> sec, offset |-> off]

\* OffsetDateTime.parse_common_iso, then OffsetDateTime.parse_rfc3339: a
\* date, the time of day and an offset
IsTimestamp(s) ==
    /\ Len(s) > 10 + Len(ClockTime)
    /\ DateParse(SubSeq(s, 1, 10)) # NoDate
    /\ SubSeq(s, 11, 10 + Len(ClockTime)) = ClockTime
    /\ SubSeq(s, 11 + Len(ClockTime), Len(s)) \in OffsetTexts

TimestampParse(s) ==
    OffsetDateTime(DateParse(SubSeq(s, 1, 10)), 15, 4, 5,
                   OffsetMinutes(SubSeq(s, 11 + Len(ClockTime), Len(s))))

\* SystemDateTime(y, m, d).to_fixed_offset() in a zone whose offset is local
SystemMidnight(date, local) == OffsetDateTime(date, 0, 0, 0, local)

parse_offset_datetime(date_str, local) ==
    IF IsTimestamp(date_str) THEN TimestampParse(date_str)
    ELSE IF DateParse(date_str) = NoDate
         THEN ValueError("could not be parsed as a valid date.")
    ELSE SystemMidnight(AddDay(DateParse(date_str)), local)

\* the strings given with --date: year-month-day with any numbers, the same
\* followed by a time and an offset, and strings of other shapes
Years == {1999, 2000, 2006, 2023, 2024, 2100}
MonthNumbers == 0..13
DayNumbers == 0..32
LocalOffsets == {0 - 300, 0, 330}

DateText(y, m, d) == Digits(y, 4) \o <<"-">> \o Digits(m, 2) \o <<"-">> \o Digits(d, 2)

OtherTexts ==
    {<<>>, <<"n", "o", "w">>, <<"2", "0", "0", "6", "/", "0", "1", "/", "0", "2">>,
     <<"2", "0", "0", "6", "-", "1", "-", "2">>,
     <<"2", "0", "0", "6", "-", "0", "1", "-", "0", "2", "T">>}

Given ==
    [kind : {"date", "timestamp"}, year : Years, month : MonthNumbers, day : DayNumbers,
     off : OffsetTexts, text : {<<>>}]
    \cup [kind : {"other"}, year : {0}, month : {0}, day : {0}, off : {<<"Z">>}, text : OtherTexts]

GivenText(g) ==
    IF g.kind = "date" THEN DateText(g.year, g.month, g.day)
    ELSE IF g.kind = "timestamp" THEN DateText(g.year, g.month, g.day) \o ClockTime \o g.off
    ELSE g.text

ClockInit ==
    /\ MainIdle
    /\ AuxIdleBut("clock")
    /\ \E g \in Given, l \in LocalOffsets :
          /\ (g.kind = "date" => g.off = <<"Z">>)
          /\ clock = [pc |-> "start", given |-> g, date_str |-> GivenText(g),
                      local |-> l, result |-> None]

ParseOffsetDateTime ==
    /\ clock.pc = "start"
    /\ clock' = [clock EXCEPT !.pc = "done",
                              !.result = parse_offset_datetime(clock.date_str, clock.local)]
    /\ UNCHANGED <<codecVars, mergeVars, stampVars, convVars, lateVars, locate, stampfile, syncer, editor, cli>>

ClockNext == ParseOffsetDateTime

SpecClock == ClockInit /\ [][ClockNext]_vars

\* the number of the day in the calendar, counted from 1970-01-01
DaysFromCivil(y, m, d) ==
    LET yy == IF m <= 2 THEN y - 1 ELSE y
        era == yy \div 400
        yoe == yy - era * 400
        mp == IF m > 2 THEN m - 3 ELSE m + 9
        doy == (153 * mp + 2) \div 5 + d - 1
        doe == yoe * 365 + yoe \div 4 - yoe \div 100 + doy
    IN era * 146097 + doe - 719468

\* year-month-day names a day of the calendar
IsCalendarDay(y, m, d) ==
    /\ m \in 1..12
    /\ d \in 1..31
    /\ (m < 12 => DaysFromCivil(y, m, d) < DaysFromCivil(y, m + 1, 1))

\* the string given is a plain calendar date
PlainDate(g) == g.kind = "date" /\ IsCalendarDay(g.year, g.month, g.day)

\* C19: for a string that is a plain calendar date the result is 00:00:00
\* on the calendar day after it, with the local offset; for a string that
\* is neither a date nor a timestamp the result is ValueError.
C19_NextDayMidnight ==
    clock.pc = "done" =>
        LET g == clock.given
            r == clock.result
        IN /\ PlainDate(g) =>
                /\ r.kind = "OffsetDateTime"
                /\ IsCalendarDay(r.year, r.month, r.day)
                /\ DaysFromCivil(r.year, r.month, r.day)
                       = DaysFromCivil(g.year, g.month, g.day) + 1
                /\ r.hour = 0 /\ r.minute = 0 /\ r.second = 0
                /\ r.offset = clock.local
           /\ (g.kind = "other" \/ ~IsCalendarDay(g.year, g.month, g.day)) =>
                r.kind = "ValueError"

\* the last day of February of a leap year, given under -05:00, resolved
\* to the first of March
C19_Witness ==
    /\ clock.pc = "done"
    /\ clock.date_str = <<"2", "0", "2", "4", "-", "0", "2", "-", "2", "9">>
    /\ clock.local = 0 - 300
    /\ clock.result = OffsetDateTime(Date(2024, 3, 1), 0, 0, 0, 0 - 300)

\* the example of the specification: 2006-01-02 under -05:00
C19_Example ==
    (clock.pc = "done" /\ clock.date_str = DateText(2006, 1, 2) /\ clock.local = 0 - 300)
        => clock.result = OffsetDateTime(Date(2006, 1, 3), 0, 0, 0, 0 - 300)

-----------------------------------------------------------------------------
(* __init__.py: the stamp command                                          *)

\* the values click hands over for --time and --rev: None when the option
\* is absent, else its text
NoValue == [none |-> TRUE, text |-> <<>>]
Value(t) == [none |-> FALSE, text |-> t]
TimeValues == {NoValue, Value(<<>>), Value(<<"n", "o", "w">>), Value(DateText(2006, 1, 2))}
RevValues == {NoValue, Value(<<>>), Value(<<"m", "a", "i", "n">>)}

\* what the file holds: a script block, or none
FileKinds == {"py_block", "py_plain", "ipynb_block", "ipynb_plain"}

\* bool(value) of an option value
Truthy(value) == ~value.none /\ value.text # <<>>

BoolInt(b) == IF b THEN 1 ELSE 0

\* a plausible slip: the comparison is off by one
TooMany_two(time, rev, latest, clear) ==
    BoolInt(Truthy(time)) + BoolInt(Truthy(rev)) + BoolInt(latest) + BoolInt(clear) > 2

\* sum([bool(time), bool(rev), latest, clear]) > 1
TooMany(time, rev, latest, clear) ==
    BoolInt(Truthy(time)) + BoolInt(Truthy(rev)) + BoolInt(latest) + BoolInt(clear) > 1

CliInit ==
    /\ MainIdle
    /\ AuxIdleBut("cli")
    /\ \E t \in TimeValues, r \in RevValues, l \in BOOLEAN, c \in BOOLEAN, f \in FileKinds :
          cli = [pc |-> "start", time |-> t, rev |-> r, latest |-> l, clear |-> c,
                 file |-> f, called |-> FALSE, dt |-> "unresolved", git |-> <<>>,
                 read |-> FALSE, written |-> FALSE, printed |-> "none", exit |-> None]

CliFrame == UNCHANGED <<codecVars, mergeVars, stampVars, convVars, lateVars, locate, stampfile, syncer, editor, clock>>

\* lines 367-373: the options are checked
CheckOptions ==
    /\ cli.pc = "start"
    /\ cli' = IF TooMany(cli.time, cli.rev, cli.latest, cli.clear)
              THEN [cli EXCEPT !.pc = "exited", !.exit = 1,
                               !.printed = "Only one of --time, --rev, --latest, or --clear may be specified"]
              ELSE [cli EXCEPT !.pc = "resolve", !.called = TRUE]
    /\ CliFrame

\* _stamp.py, resolve_offset_datetime: git is asked for a revision and
\* answers or fails, a time is parsed, or the clock is read
Resolve ==
    /\ cli.pc = "resolve"
    /\ \/ /\ cli.clear
          /\ cli' = [cli EXCEPT !.pc = "read", !.dt = None]
       \/ /\ ~cli.clear /\ (cli.latest \/ Truthy(cli.rev))
          /\ \E answered \in BOOLEAN :
                cli' = [cli EXCEPT
                           !.git = Append(cli.git, IF cli.latest THEN <<"H", "E", "A", "D">> ELSE cli.rev.text),
                           !.pc = IF answered THEN "read" ELSE "raised",
                           !.dt = IF answered THEN "t1" ELSE "unresolved",
                           !.printed = IF answered THEN "none" ELSE "CalledProcessError"]
       \/ /\ ~cli.clear /\ ~cli.latest /\ ~Truthy(cli.rev) /\ Truthy(cli.time)
          /\ LET parsed_time == parse_offset_datetime(cli.time.text, 0 - 300)
             IN cli' = IF parsed_time.kind = "ValueError"
                       THEN [cli EXCEPT !.pc = "exited", !.exit = 1, !.printed = parsed_time.msg]
                       ELSE [cli EXCEPT !.pc = "read", !.dt = "t2"]
       \/ /\ ~cli.clear /\ ~cli.latest /\ ~Truthy(cli.rev) /\ ~Truthy(cli.time)
          /\ cli' = [cli EXCEPT !.pc = "read", !.dt = "t2"]
    /\ CliFrame

\* _stamp.py, stamp: the file is read; without a script block ValueError
\* is raised and the command exits with 1
ReadFile ==
    /\ cli.pc = "read"
    /\ cli' = IF cli.file \in {"py_block", "ipynb_block"}
              THEN [cli EXCEPT !.pc = "write", !.read = TRUE]
              ELSE [cli EXCEPT !.pc = "exited", !.read = TRUE, !.exit = 1,
                               !.printed = "No PEP 723 metadata block found."]
    /\ CliFrame

\* the file is written and the action reported
WriteFile ==
    /\ cli.pc = "write"
    /\ cli' = [cli EXCEPT !.pc = "exited", !.written = TRUE, !.exit = 0,
                          !.printed = IF cli.dt = None THEN "DeleteAction" ELSE "stamped"]
    /\ CliFrame

CliNext == CheckOptions \/ Resolve \/ ReadFile \/ WriteFile

SpecCli == CliInit /\ [][CliNext]_vars

\* the options given: a flag that is set, an option with a non-empty value
GivenOptions ==
    {o \in {"time", "rev", "latest", "clear"} :
        \/ o = "time" /\ cli.time \notin {NoValue, Value(<<>>)}
        \/ o = "rev" /\ cli.rev \notin {NoValue, Value(<<>>)}
        \/ o = "latest" /\ cli.latest
        \/ o = "clear" /\ cli.clear}

OneOptionProceeds ==
    (Cardinality(GivenOptions) <= 1 /\ cli.pc # "start") => cli.called

\* an option given with an empty value is not counted
EmptyValueNotCounted ==
    (cli.time = Value(<<>>) /\ cli.clear /\ cli.rev = NoValue /\ ~cli.latest /\ cli.pc # "start")
        => cli.called

-----------------------------------------------------------------------------
(* _run_template.py: the runtime and the arguments of uv run               *)

RuntimeNames == {"notebook", "lab", "nbclassic"}

is_notebook_kind(kind) == kind \in {<<n>> : n \in RuntimeNames}

\* str.split(sep) for a separator of one symbol
RECURSIVE Split(_, _)
Split(t, sep) ==
    IF \A i \in 1..Len(t) : t[i] # sep THEN <<t>>
    ELSE LET i == Min({j \in 1..Len(t) : t[j] = sep})
         IN <<SubSeq(t, 1, i - 1)>> \o Split(SubSeq(t, i + 1, Len(t)), sep)

NoVersion == <<"<none>">>

Runtime(name, version) == [kind |-> "Runtime", name |-> name, version |-> version]

\* Runtime.try_from_specifier(value)
try_from_specifier(value) ==
    LET parts == IF \E i \in 1..Len(value) : value[i] = "@" THEN Split(value, "@")
                 ELSE IF \E i \in 1..Len(value) : value[i] = "==" THEN Split(value, "==")
                 ELSE <<value>>
    IN IF Len(parts) = 2 /\ is_notebook_kind(parts[1]) THEN Runtime(parts[1][1], parts[2])
       ELSE IF Len(parts) = 1 /\ is_notebook_kind(parts[1]) THEN Runtime(parts[1][1], NoVersion)
       ELSE ValueError("Invalid runtime specifier")

\* bool(self.version)
HasVersion(runtime) == runtime.version # NoVersion /\ runtime.version # <<>>

\* self.version.startswith("6")
StartsWithSix(version) == Len(version) >= 1 /\ version[1] = "6"

\* Runtime.as_with_arg()
as_with_arg(runtime) ==
    LET named == IF runtime.name = "lab" THEN <<"jupyterlab">> ELSE <<runtime.name>>
        versioned == IF HasVersion(runtime) THEN named \o <<"==">> \o runtime.version
                     ELSE named
    IN IF versioned = <<"notebook">> /\ HasVersion(runtime) /\ StartsWithSix(runtime.version)
       THEN versioned \o <<",", "setuptools">>
       ELSE versioned

\* a plausible slip: one --with argument for every extra requirement
ExtraWith_each(with_args) == [i \in 1..Len(with_args) |-> <<"--with=">> \o with_args[i]]

\* *(["--with=" + ",".join(with_args)] if with_args else [])
ExtraWith(with_args) ==
    IF with_args # <<>> THEN <<<<"--with=">> \o Join(<<",">>, with_args)>> ELSE <<>>

\* the argument list of prepare_run_script_and_uv_run_args
uv_run_args(runtime, python, with_args, no_project) ==
    <<<<"run">>>>
        \o (IF no_project THEN <<<<"--no-project">>>> ELSE <<>>)
        \o (IF Truthy(python) THEN <<<<"--python=">> \o python.text>> ELSE <<>>)
        \o <<<<"--with=">> \o as_with_arg(runtime)>>
        \o ExtraWith(with_args)
        \o <<<<"-">>>>

\* the values of --jupyter, --python and --with, the arguments after "--"
\* and the dependencies of the notebook
Versions == {<<"6">>, <<"6", ".4.0">>, <<"7", ".0">>, <<"1", "6">>, <<>>}
Specifiers ==
    {<<n>> : n \in RuntimeNames \cup {"voila"}}
        \cup {<<n, sep>> \o v : n \in RuntimeNames \cup {"voila"}, sep \in {"@", "=="}, v \in Versions}
        \cup {<<"lab", "@", "4", "@", "1">>}
PythonValues == {NoValue, Value(<<>>), Value(<<"3.12">>)}
MaxWith == 2
WithValues == {<<"polars">>, <<"anywidget", ",", "foo">>}
JupyterArgs == {<<>>, <<<<"--no-browser">>, <<"--port=8888">>>>}
InlineDependencies == {<<>>, <<"numpy">>}

RunnerFrame == UNCHANGED <<codecVars, mergeVars, stampVars, convVars, auxVars, managed, magic, replacer>>

RunTemplateInit ==
    /\ MainIdle
    /\ AuxIdleBut("runner")
    /\ LateIdleBut("runner")
    /\ \E j \in Specifiers, p \in PythonValues, w \in SeqsUpTo(WithValues, MaxWith),
          a \in JupyterArgs, np \in BOOLEAN, d \in InlineDependencies :
          runner = [pc |-> "start", jupyter |-> j, python |-> p, with_args |-> w,
                    jupyter_args |-> a, no_project |-> np, dependencies |-> d,
                    runtime |-> Runtime("lab", NoVersion), args |-> <<>>]

\* the runtime is parsed from the value of --jupyter
ParseSpecifier ==
    /\ runner.pc = "start"
    /\ LET parsed_runtime == try_from_specifier(runner.jupyter)
       IN runner' = IF parsed_runtime.kind = "ValueError"
                    THEN [runner EXCEPT !.pc = "raised"]
                    ELSE [runner EXCEPT !.pc = "runtime", !.runtime = parsed_runtime]
    /\ RunnerFrame

\* prepare_run_script_and_uv_run_args builds the argument list
PrepareRunArgs ==
    /\ runner.pc = "runtime"
    /\ runner' = [runner EXCEPT
                     !.pc = "prepared",
                     !.args = uv_run_args(runner.runtime, runner.python,
                                          runner.with_args, runner.no_project)]
    /\ RunnerFrame

RunTemplateNext == ParseSpecifier \/ PrepareRunArgs

SpecRunTemplate == RunTemplateInit /\ [][RunTemplateNext]_vars

\* the symbols of the arguments of the list
ArgSymbols(args) == UNION {{args[i][k] : k \in 1..Len(args[i])} : i \in 1..Len(args)}

\* the positions of the list at which an argument starts with the word
StartingWith(args, word) == {i \in 1..Len(args) : args[i][1] = word}

\* the requirements one after the other, a comma before all but the first
CommaSeparated(ws) ==
    Concat([i \in 1..Len(ws) |-> IF i = 1 THEN ws[i] ELSE <<",">> \o ws[i]])

\* C23: the argument list is run, --no-project iff no_project, --python=<p>
\* iff a python is given, --with=<runtime requirement>, one --with= with
\* the extra requirements joined by commas in their order iff there is one,
\* and "-", in this order and nothing else; no argument for Jupyter and no
\* dependency of the notebook is in it.
C23_RunArgs ==
    runner.pc = "prepared" =>
        LET args == runner.args
            np == IF runner.no_project THEN 1 ELSE 0
            py == IF runner.python \notin {NoValue, Value(<<>>)} THEN 1 ELSE 0
            ex == IF Len(runner.with_args) >= 1 THEN 1 ELSE 0
        IN /\ Len(args) = 3 + np + py + ex
           /\ args[1] = <<"run">>
           /\ (np = 1) => args[2] = <<"--no-project">>
           /\ (py = 1) => args[2 + np] = <<"--python=">> \o runner.python.text
           /\ args[2 + np + py] = <<"--with=">> \o as_with_arg(runner.runtime)
           /\ (ex = 1) =>
                 args[3 + np + py] =
                     <<"--with=">> \o CommaSeparated(runner.with_args)
           /\ args[Len(args)] = <<"-">>
           /\ ArgSymbols(args) \cap {"--no-browser", "--port=8888", "numpy"} = {}

\* two extra requirements, a python, --no-project, arguments for Jupyter
\* and a dependency of the notebook: six arguments
C23_Witness ==
    /\ runner.pc = "prepared"
    /\ Len(runner.with_args) = 2
    /\ runner.with_args[1] # runner.with_args[2]
    /\ runner.python = Value(<<"3.12">>)
    /\ runner.no_project
    /\ runner.jupyter_args # <<>>
    /\ runner.dependencies # <<>>
    /\ Len(runner.args) = 6

\* the requirement the claim expects of a runtime
ExpectedRequirement(runtime) ==
    LET package == IF runtime.name = "lab" THEN <<"jupyterlab">> ELSE <<runtime.name>>
        given == runtime.version \notin {NoVersion, <<>>}
    IN IF runtime.name = "notebook" /\ given /\ runtime.version[1] = "6"
       THEN <<"notebook", "==">> \o runtime.version \o <<",", "setuptools">>
       ELSE IF given THEN package \o <<"==">> \o runtime.version
       ELSE package

\* C24: for the runtime notebook with a version that starts with 6 the
\* requirement is notebook==<version>,setuptools; for every other runtime
\* or version it is the package name, followed by ==<version> when a
\* version is given.
C24_NotebookSixSetuptools ==
    runner.pc = "prepared" =>
        /\ as_with_arg(runner.runtime) = ExpectedRequirement(runner.runtime)
        /\ runner.args[Min(StartingWith(runner.args, "--with="))]
               = <<"--with=">> \o ExpectedRequirement(runner.runtime)

\* setuptools is in no argument list
SetuptoolsNeverAppended ==
    runner.pc = "prepared" => "setuptools" \notin ArgSymbols(runner.args)

-----------------------------------------------------------------------------
(* _run.py: Pep723Meta.from_toml and prepare_uv_tool_run                   *)

\* the tables toml.loads gives for the metadata blocks of the model: the
\* keys they hold, each key with one value
MetaKeys == {"dependencies", "requires-python", "requires_python"}
MetaTables == SUBSET MetaKeys

MetaValue(key) ==
    CASE key = "dependencies" -> <<<<"numpy">>, <<"polars">>>>
      [] key = "requires-python" -> <<">=3.12">>
      [] key = "requires_python" -> <<">=3.13">>

Pep723Meta(dependencies, requires_python) ==
    [dependencies |-> dependencies, requires_python |-> requires_python]

\* meta.get(key, default)
Get(table, key, default) == IF key \in table THEN MetaValue(key) ELSE default

\* Pep723Meta.from_toml(s), for the table toml.loads(s) gives
from_toml(table) ==
    Pep723Meta(Get(table, "dependencies", <<>>),
               IF "requires_python" \in table
               THEN Value(MetaValue("requires_python")) ELSE NoValue)

\* get_juv_extras(jupyter, version)
get_juv_extras(runtime, cellmagic) ==
    LET named == IF runtime.name = "lab" THEN <<"jupyterlab">> ELSE <<runtime.name>>
        jupyter_dependency == IF HasVersion(runtime)
                              THEN named \o <<"==">> \o runtime.version ELSE named
    IN <<<<"setuptools">>, jupyter_dependency>>
           \o (IF cellmagic THEN <<<<"juv-jupyter.whl">>>> ELSE <<>>)

\* lines 135-136: the python the argument list is built with
ChosenPython(meta, python) ==
    IF Truthy(meta.requires_python) /\ python = NoValue THEN meta.requires_python ELSE python

\* the argument list of prepare_uv_tool_run
uv_tool_run_args(runtime, meta, python, extra_with_args, no_cache, no_project, cellmagic) ==
    <<<<"tool">>, <<"run">>, <<"--isolated">>>>
        \o (IF no_project THEN <<<<"--no-project">>>> ELSE <<>>)
        \o (IF no_cache THEN <<<<"--no-cache">>>> ELSE <<>>)
        \o (IF Truthy(ChosenPython(meta, python))
            THEN <<<<"--python=">> \o ChosenPython(meta, python).text>> ELSE <<>>)
        \o <<<<"--with=">> \o Join(<<",">>, get_juv_extras(runtime, cellmagic))>>
        \o (IF meta.dependencies # <<>>
            THEN <<<<"--with=">> \o Join(<<",">>, meta.dependencies)>> ELSE <<>>)
        \o ExtraWith(extra_with_args)
        \o <<<<"jupyter">>, <<runtime.name>>, <<"target">>>>

ToolRunInit ==
    /\ MainIdle
    /\ AuxIdleBut("runner")
    /\ LateIdleBut("runner")
    /\ \E t \in MetaTables, has_meta \in BOOLEAN, p \in PythonValues,
          w \in SeqsUpTo(WithValues, 1), n \in RuntimeNames, v \in {NoVersion, <<"7", ".0">>},
          nc \in BOOLEAN, np \in BOOLEAN, cm \in BOOLEAN :
          /\ (~has_meta => t = {})
          /\ runner = [pc |-> "located", has_meta |-> has_meta, table |-> t, python |-> p,
                       with_args |-> w, runtime |-> Runtime(n, v), no_cache |-> nc,
                       no_project |-> np, cellmagic |-> cm,
                       meta |-> Pep723Meta(<<>>, NoValue), args |-> <<>>]

\* line 183: Pep723Meta.from_toml(meta) if meta else Pep723Meta([], None)
FromToml ==
    /\ runner.pc = "located"
    /\ runner' = [runner EXCEPT !.pc = "meta",
                                !.meta = IF runner.has_meta THEN from_toml(runner.table)
                                         ELSE Pep723Meta(<<>>, NoValue)]
    /\ RunnerFrame

PrepareUvToolRun ==
    /\ runner.pc = "meta"
    /\ runner' = [runner EXCEPT
                     !.pc = "prepared",
                     !.args = uv_tool_run_args(runner.runtime, runner.meta, runner.python,
                                               runner.with_args, runner.no_cache,
                                               runner.no_project, runner.cellmagic)]
    /\ RunnerFrame

ToolRunNext == FromToml \/ PrepareUvToolRun

SpecToolRun == ToolRunInit /\ [][ToolRunNext]_vars

\* the --python arguments of the list
PythonArgs(args) == {args[i] : i \in StartingWith(args, "--python=")}

\* C30: when the metadata block declares requires-python and no --python
\* is given, the list has --python=<requires-python>; when --python is
\* given, the list has --python=<that value>; when there is neither, the
\* list has no --python argument.
C30_RequiresPythonPassed ==
    runner.pc = "prepared" =>
        LET declared == runner.has_meta /\ "requires-python" \in runner.table
        IN /\ (declared /\ runner.python = NoValue) =>
                 PythonArgs(runner.args) = {<<"--python=">> \o MetaValue("requires-python")}
           /\ (runner.python \notin {NoValue, Value(<<>>)}) =>
                 PythonArgs(runner.args) = {<<"--python=">> \o runner.python.text}
           /\ (~declared /\ runner.python = NoValue /\ "requires_python" \notin runner.table) =>
                 PythonArgs(runner.args) = {}

\* what the code does: the key read is requires_python, with an underscore;
\* requires-python is never passed on, and --python takes precedence
OnlyUnderscoreKeyPassed ==
    runner.pc = "prepared" =>
        /\ (runner.python = NoValue) =>
              PythonArgs(runner.args) =
                  IF "requires_python" \in runner.table
                  THEN {<<"--python=">> \o MetaValue("requires_python")} ELSE {}
        /\ (runner.python \notin {NoValue, Value(<<>>)}) =>
              PythonArgs(runner.args) = {<<"--python=">> \o runner.python.text}

-----------------------------------------------------------------------------
(* _run_managed.py: run and the output thread                              *)

\* the lines the child writes: a line without a URL, a line with a URL on
\* localhost (two of them, with different ports), a line with a URL on
\* another host, and a line with "http://" and nothing after it
LineKinds == {"plain", "localhost-8888", "localhost-8889", "127.0.0.1", "no-url"}

MaxLines == 3

\* "http://" in line
HasHttp(line) == line # "plain"

\* re.search(r"http://[^\s]+", line) finds a URL
UrlFound(line) == line \in {"localhost-8888", "localhost-8889", "127.0.0.1"}

\* "localhost" in url
IsLocalhost(url) == url \in {"localhost-8888", "localhost-8889"}

NoUrl == "None"
Sentinel == "<None>"

\* a plausible slip: Queue(maxsize=1), whose put blocks when it is full
QueueFull_maxsize(queue) == Len(queue) >= 1

\* Queue(): put never blocks
QueueFull(queue) == FALSE

ManagedFrame == UNCHANGED <<codecVars, mergeVars, stampVars, convVars, auxVars, runner, magic, replacer>>

ManagedInit ==
    /\ MainIdle
    /\ AuxIdleBut("managed")
    /\ LateIdleBut("managed")
    /\ \E lines \in SeqsUpTo(LineKinds, MaxLines) :
          managed = [todo |-> lines, child |-> "running", main_pc |-> "loop",
                     thread_pc |-> "version", queue |-> <<>>, put_log |-> <<>>,
                     local_url |-> NoUrl, direct_url |-> NoUrl, displayed |-> 0,
                     interrupted |-> FALSE]

\* the child exits when it has written its lines
ChildExit ==
    /\ managed.child = "running"
    /\ managed.todo = <<>>
    /\ managed' = [managed EXCEPT !.child = "exited"]
    /\ ManagedFrame

\* lines 156-159: a line is read from the child and put on the queue
MainRead ==
    /\ managed.main_pc = "loop"
    /\ managed.todo # <<>>
    /\ ~QueueFull(managed.queue)
    /\ managed' = [managed EXCEPT !.todo = Tail(managed.todo),
                                  !.queue = Append(managed.queue, Head(managed.todo)),
                                  !.put_log = Append(managed.put_log, Head(managed.todo))]
    /\ ManagedFrame

\* lines 157-158: end of file and the child has exited
MainEof ==
    /\ managed.main_pc = "loop"
    /\ managed.todo = <<>>
    /\ managed.child = "exited"
    /\ managed' = [managed EXCEPT !.main_pc = "finally"]
    /\ ManagedFrame

\* KeyboardInterrupt in the loop
Interrupt ==
    /\ managed.main_pc = "loop"
    /\ managed' = [managed EXCEPT !.main_pc = "except", !.interrupted = TRUE]
    /\ ManagedFrame

\* lines 160-162: the process group of the child gets SIGTERM
MainKill ==
    /\ managed.main_pc = "except"
    /\ managed' = [managed EXCEPT !.main_pc = "finally", !.child = "exited", !.todo = <<>>]
    /\ ManagedFrame

\* line 164: output_queue.put(None)
MainPutNone ==
    /\ managed.main_pc = "finally"
    /\ ~QueueFull(managed.queue)
    /\ managed' = [managed EXCEPT !.main_pc = "join",
                                  !.queue = Append(managed.queue, Sentinel),
                                  !.put_log = Append(managed.put_log, Sentinel)]
    /\ ManagedFrame

\* line 165: output_thread.join() returns when the thread is over
MainJoin ==
    /\ managed.main_pc = "join"
    /\ managed.thread_pc \in {"done", "died"}
    /\ managed' = [managed EXCEPT !.main_pc = "returned"]
    /\ ManagedFrame

\* lines 67-77: the thread asks uv for the version of Jupyter; the call
\* returns, or it raises and the thread is over
ThreadVersion ==
    /\ managed.thread_pc = "version"
    /\ \E raised \in BOOLEAN :
          managed' = [managed EXCEPT !.thread_pc = IF raised THEN "died" ELSE "get"]
    /\ ManagedFrame

\* lines 119-124: the URLs after a line was looked at
UrlsAfter(line, local_url, direct_url) ==
    IF ~HasHttp(line) THEN [local_url |-> local_url, direct_url |-> direct_url]
    ELSE IF IsLocalhost(line) /\ local_url = NoUrl
         THEN [local_url |-> line, direct_url |-> direct_url]
    ELSE IF direct_url = NoUrl THEN [local_url |-> local_url, direct_url |-> line]
    ELSE [local_url |-> local_url, direct_url |-> direct_url]

\* lines 114-129: one pass of the loop of process_output
ThreadGet ==
    /\ managed.thread_pc = "get"
    /\ managed.queue # <<>>
    /\ LET line == Head(managed.queue)
           urls == UrlsAfter(line, managed.local_url, managed.direct_url)
       IN managed' =
            IF line = Sentinel
            THEN [managed EXCEPT !.queue = Tail(managed.queue), !.thread_pc = "done"]
            ELSE IF HasHttp(line) /\ ~UrlFound(line)
            THEN [managed EXCEPT !.queue = Tail(managed.queue), !.thread_pc = "died"]
            ELSE IF urls.local_url # NoUrl /\ urls.direct_url # NoUrl
            THEN [managed EXCEPT !.queue = Tail(managed.queue), !.thread_pc = "done",
                                 !.local_url = urls.local_url,
                                 !.direct_url = urls.direct_url,
                                 !.displayed = managed.displayed + 1]
            ELSE [managed EXCEPT !.queue = Tail(managed.queue),
                                 !.local_url = urls.local_url,
                                 !.direct_url = urls.direct_url]
    /\ ManagedFrame

MainStep == MainRead \/ MainEof \/ MainKill \/ MainPutNone \/ MainJoin

ThreadStep == ThreadVersion \/ ThreadGet

ManagedNext == ChildExit \/ Interrupt \/ MainStep \/ ThreadStep

SpecManaged == ManagedInit /\ [][ManagedNext]_vars

\* the main thread and the output thread both keep running when they can
SpecManagedFair == SpecManaged /\ WF_vars(MainStep) /\ WF_vars(ThreadStep)

\* the main loop was left, by the end of the output or by an interrupt
LoopLeft == managed.main_pc \in {"except", "finally"}

\* what the output thread was doing when the loop was left
ThreadOver == managed.thread_pc \in {"done", "died"}

\* None is put once the loop is left, once, and after every line
SentinelLast ==
    \A i \in 1..Len(managed.put_log) :
        (managed.put_log[i] = Sentinel) =>
            /\ i = Len(managed.put_log)
            /\ managed.main_pc \in {"join", "returned"}

\* run has returned: None was put after the lines, the thread is over
Returned ==
    /\ managed.main_pc = "returned"
    /\ ThreadOver
    /\ managed.put_log # <<>>
    /\ managed.put_log[Len(managed.put_log)] = Sentinel

\* C26: once the main loop is left, by the end of the output with the
\* child exited or by a KeyboardInterrupt, None is put on the queue after
\* all lines, the output thread ends, join returns and run returns,
\* whatever the output thread was doing.
C26_ReaderProtocolTerminates == ([]SentinelLast) /\ (LoopLeft ~> Returned)

\* run returned after an interrupt, with the output thread dead on a line
\* with "http://" and no URL
C26_Witness ==
    /\ managed.main_pc = "returned"
    /\ managed.interrupted
    /\ managed.thread_pc = "died"
    /\ Len(managed.put_log) > Len(managed.queue)
    /\ managed.put_log[Len(managed.put_log) - Len(managed.queue)] = "no-url"

\* run returned with lines left on the queue: the thread had stopped
\* reading after both URLs
ReturnedWithUnreadLines ==
    /\ managed.main_pc = "returned"
    /\ managed.displayed = 1
    /\ Len(managed.queue) >= 2

\* C27: the summary is displayed at most once, and only with both URLs;
\* the URL shown as local is on localhost and the URL shown as direct is
\* not.
C27_LocalAndDirect ==
    /\ managed.displayed <= 1
    /\ (managed.displayed = 1) => (managed.local_url # NoUrl /\ managed.direct_url # NoUrl)
    /\ (managed.local_url # NoUrl) => IsLocalhost(managed.local_url)
    /\ (managed.direct_url # NoUrl) => ~IsLocalhost(managed.direct_url)

\* what holds: the summary is displayed at most once and with both URLs,
\* and the URL shown as local is on localhost
DisplayedOnceWithBoth ==
    /\ managed.displayed <= 1
    /\ (managed.displayed = 1) => (managed.local_url # NoUrl /\ managed.direct_url # NoUrl)
    /\ (managed.local_url # NoUrl) => IsLocalhost(managed.local_url)

-----------------------------------------------------------------------------
(* _cellmagic.py: the pre_run_cell hook of the IPython extension           *)

\* debounce(0.5), with the clock counted in tenths of a second
Wait == 5

\* time.time() counts from 1970: the first reading is not below the wait
Epoch == Wait
MaxTime == 11
MaxMagicCells == 2

MagicCellKinds == {"code_meta", "code_meta2", "code_plain", "md_meta"}

MagicNotebooks ==
    {[i \in 1..Len(ks) |-> NbCell(ks[i])] : ks \in SeqsUpTo(MagicCellKinds, MaxMagicCells)}

RECURSIVE FirstMetaSource(_, _)
FirstMetaSource(cells, i) ==
    IF i > Len(cells) THEN NoValue
    ELSE IF cells[i].cell_type # "code" THEN FirstMetaSource(cells, i + 1)
    ELSE IF includes_inline_metadata(cells[i].source) THEN Value(cells[i].source)
    ELSE FirstMetaSource(cells, i + 1)

\* the source of the first code cell that holds a script block, or None
get_current_meta_comment(cells) == FirstMetaSource(cells, 1)

Suppressed_never(current_time, last_call) == FALSE

\* debounced(): current_time - last_call < wait
Suppressed(current_time, last_call) == current_time - last_call < Wait

\* the time of a sync that never happened: out of the reach of the wait
Never == Epoch - Wait

MagicFrame == UNCHANGED <<codecVars, mergeVars, stampVars, convVars, auxVars, runner, managed, replacer>>

MagicInit ==
    /\ MainIdle
    /\ AuxIdleBut("magic")
    /\ LateIdleBut("magic")
    /\ \E cells \in MagicNotebooks :
          magic = [LOADED |-> FALSE, loads |-> 0, hooks |-> 0, now |-> Epoch,
                   last_call |-> 0, inline_meta_comment |-> NoValue,
                   cells |-> cells, outcome |-> "none", call |-> FALSE,
                   last_sync |-> Never, synced |-> NoValue]

\* the clock advances
Tick ==
    /\ magic.now < MaxTime
    /\ magic' = [magic EXCEPT !.now = @ + 1]
    /\ MagicFrame

\* the notebook file is saved with other cells
SaveNotebook ==
    /\ \E cells \in MagicNotebooks :
          /\ cells # magic.cells
          /\ magic' = [magic EXCEPT !.cells = cells]
    /\ MagicFrame

\* load_ipython_extension(ipython); the read of the notebook may raise
\* after LOADED is set
LoadExtension ==
    /\ magic.loads < 2
    /\ \E readable \in BOOLEAN :
          magic' =
              IF magic.LOADED THEN [magic EXCEPT !.loads = @ + 1]
              ELSE IF ~readable THEN [magic EXCEPT !.loads = @ + 1, !.LOADED = TRUE]
              ELSE [magic EXCEPT !.loads = @ + 1, !.LOADED = TRUE,
                                 !.inline_meta_comment = get_current_meta_comment(magic.cells),
                                 !.hooks = @ + 1]
    /\ MagicFrame

\* sync_env() behind the debounce, for what the notebook holds now
sync_env(current, readable) ==
    IF Suppressed(magic.now, magic.last_call)
        THEN [magic EXCEPT !.outcome = "suppressed", !.call = ~@]
    ELSE IF ~readable
        THEN [magic EXCEPT !.outcome = "raised", !.call = ~@, !.last_call = magic.now]
    ELSE IF current = magic.inline_meta_comment
        THEN [magic EXCEPT !.outcome = "unchanged", !.call = ~@, !.last_call = magic.now]
    ELSE [magic EXCEPT !.outcome = "synced", !.call = ~@, !.last_call = magic.now,
                       !.inline_meta_comment = current,
                       !.last_sync = magic.now, !.synced = current]

\* a pre_run_cell event runs the registered hook
PreRunCell ==
    /\ magic.hooks > 0
    /\ \E readable \in BOOLEAN :
          magic' = sync_env(get_current_meta_comment(magic.cells), readable)
    /\ MagicFrame

MagicNext == Tick \/ SaveNotebook \/ LoadExtension \/ PreRunCell

SpecMagic == MagicInit /\ [][MagicNext]_vars

\* a pre_run_cell event reached the hook in this step
HookCalled == magic'.call # magic.call

\* C28: uv_sync is invoked only when the current source of the metadata
\* cell differs from the recorded one, and not within 0.5 s of the sync
\* before it; the recorded source changes only in a call the debounce lets
\* through, and a call let through that reads a source other than the
\* recorded one syncs it; a second load registers no second hook.
C28_DebouncedSync ==
    /\ [](magic.hooks <= 1)
    /\ [][
            /\ (magic'.last_sync # magic.last_sync \/ magic'.synced # magic.synced
                  \/ magic'.inline_meta_comment # magic.inline_meta_comment
                  \/ magic'.last_call # magic.last_call) =>
                   (HookCalled \/ (magic.loads < magic'.loads /\ ~magic.LOADED))
            /\ (magic.LOADED /\ magic.loads < magic'.loads) => magic'.hooks = magic.hooks
            /\ HookCalled =>
                  LET current == get_current_meta_comment(magic.cells)
                      through == magic.now - magic.last_call >= Wait
                  IN  /\ magic'.outcome = "synced" =>
                            /\ current # magic.inline_meta_comment
                            /\ magic'.synced = current
                            /\ magic.last_sync # Never => magic.now - magic.last_sync >= Wait
                      /\ magic'.outcome # "synced" =>
                            /\ magic'.last_sync = magic.last_sync
                            /\ magic'.synced = magic.synced
                      /\ magic'.inline_meta_comment # magic.inline_meta_comment => through
                      /\ (through /\ magic'.outcome # "raised"
                            /\ current # magic.inline_meta_comment) =>
                                /\ magic'.outcome = "synced"
                                /\ magic'.inline_meta_comment = current
         ]_vars

\* after a second load of the extension, a source other than the one met
\* at the load has been synced more than 0.5 s after the first reading
C28_Witness ==
    /\ magic.loads = 2
    /\ magic.hooks = 1
    /\ magic.outcome = "synced"
    /\ magic.synced = magic.inline_meta_comment
    /\ magic.synced = Value(NbCell("code_meta2").source)
    /\ magic.last_sync = Epoch + Wait + 1

-----------------------------------------------------------------------------
(* _run_replace.py: run(script, args, lockfile_contents, dir)              *)

Platforms == {"posix", "windows"}

\* lockfile_contents: None, '' or a lockfile text
LockfileContents == {NoValue, Value(<<>>), Value(<<"l">>)}

MaxInterrupts == 2

\* signal.CTRL_BREAK_EVENT is an attribute of the signal module on Windows only
HasCtrlBreakEvent(platform) == platform = "windows"

\* the except KeyboardInterrupt branch: what it does to the child, and the
\* exception it raises itself
OnInterrupt(platform) ==
    IF platform = "windows"
        THEN [signalled |-> TRUE, error |-> "none"]            \* os.kill(pid, SIGTERM)
    ELSE IF HasCtrlBreakEvent(platform)
        THEN [signalled |-> TRUE, error |-> "none"]            \* send_signal(CTRL_BREAK_EVENT)
    ELSE [signalled |-> FALSE, error |-> "AttributeError"]

ReplaceFrame == UNCHANGED <<codecVars, mergeVars, stampVars, convVars, auxVars, runner, managed, magic>>

ReplaceInit ==
    /\ MainIdle
    /\ AuxIdleBut("replacer")
    /\ LateIdleBut("replacer")
    /\ \E platform \in Platforms, contents \in LockfileContents :
          replacer = [platform |-> platform, lockfile_contents |-> contents,
                      pc |-> "stage", child |-> "none", lockfile |-> FALSE,
                      env_lockfile |-> FALSE, signalled |-> FALSE,
                      interrupts |-> 0, error |-> "none"]

\* the script is staged, the lockfile written if there are contents, and
\* the child started
StageAndSpawn ==
    /\ replacer.pc = "stage"
    /\ replacer' = [replacer EXCEPT !.pc = "wait", !.child = "starting",
                                    !.lockfile = Truthy(replacer.lockfile_contents),
                                    !.env_lockfile = Truthy(replacer.lockfile_contents)]
    /\ ReplaceFrame

\* static/setup.py in the child: the lockfile named by the environment is
\* read into the notebook and deleted; a missing one ends the child
ChildSetup ==
    /\ replacer.child = "starting"
    /\ replacer' =
          IF ~replacer.env_lockfile THEN [replacer EXCEPT !.child = "serving"]
          ELSE IF replacer.lockfile
              THEN [replacer EXCEPT !.child = "serving", !.lockfile = FALSE]
          ELSE [replacer EXCEPT !.child = "exited"]
    /\ ReplaceFrame

\* the child ends, by itself or on the signal
ChildEnds ==
    /\ replacer.child \in {"starting", "serving"}
    /\ replacer' = [replacer EXCEPT !.child = "exited"]
    /\ ReplaceFrame

\* process.wait() in the try returns
WaitReturns ==
    /\ replacer.pc = "wait"
    /\ replacer.child = "exited"
    /\ replacer' = [replacer EXCEPT !.pc = "finally"]
    /\ ReplaceFrame

\* Ctrl-C while a process.wait() blocks: the one in the try is caught, the
\* one in the finally leaves run
KeyboardInterrupt ==
    /\ replacer.pc \in {"wait", "final_wait"}
    /\ replacer.child # "exited"
    /\ replacer.interrupts < MaxInterrupts
    /\ replacer' =
          IF replacer.pc = "wait"
              THEN [replacer EXCEPT !.pc = "except", !.interrupts = @ + 1]
          ELSE [replacer EXCEPT !.pc = "raised", !.interrupts = @ + 1,
                                !.error = "KeyboardInterrupt"]
    /\ ReplaceFrame

ExceptKeyboardInterrupt ==
    /\ replacer.pc = "except"
    /\ replacer' = [replacer EXCEPT !.pc = "finally",
                                    !.signalled = OnInterrupt(replacer.platform).signalled,
                                    !.error = OnInterrupt(replacer.platform).error]
    /\ ReplaceFrame

\* finally: lockfile.unlink(missing_ok=True)
FinallyUnlink ==
    /\ replacer.pc = "finally"
    /\ replacer' = [replacer EXCEPT !.pc = "final_wait", !.lockfile = FALSE]
    /\ ReplaceFrame

\* finally: process.wait(), then run returns or the pending exception leaves it
FinalWait ==
    /\ replacer.pc = "final_wait"
    /\ replacer.child = "exited"
    /\ replacer' = [replacer EXCEPT !.pc = IF replacer.error = "none" THEN "returned"
                                           ELSE "raised"]
    /\ ReplaceFrame

ReplaceNext ==
    \/ StageAndSpawn
    \/ ChildSetup
    \/ ChildEnds
    \/ WaitReturns
    \/ KeyboardInterrupt
    \/ ExceptKeyboardInterrupt
    \/ FinallyUnlink
    \/ FinalWait

SpecReplace == ReplaceInit /\ [][ReplaceNext]_vars

\* C29: after a KeyboardInterrupt caught in the wait, the child has been
\* sent a termination signal before the final wait, on POSIX as on Windows;
\* run returns only when the child has exited, and the lockfile is gone
\* whenever run is left.
C29_InterruptTerminatesChild ==
    /\ (replacer.interrupts > 0 /\ replacer.pc \in {"finally", "final_wait", "returned", "raised"}) =>
           replacer.signalled
    /\ replacer.pc = "returned" => replacer.child = "exited"
    /\ replacer.pc \in {"returned", "raised"} => ~replacer.lockfile

\* what holds of the interrupt: the child is signalled on Windows, and on
\* POSIX the handler itself raises and no signal is sent
InterruptSignalsOnWindowsOnly ==
    (replacer.interrupts > 0 /\ replacer.pc \in {"finally", "final_wait", "returned", "raised"}) =>
        /\ replacer.signalled = (replacer.platform = "windows")
        /\ (replacer.platform = "posix") = (replacer.error \in {"AttributeError", "KeyboardInterrupt"} /\ ~replacer.signalled)

\* the lockfile is gone whenever run is left, and run returns only after
\* the child has exited
LockfileGoneWhenLeft ==
    /\ replacer.pc \in {"returned", "raised"} => ~replacer.lockfile
    /\ replacer.pc = "returned" => replacer.child = "exited"

====
